---------------------------- MODULE Spec2Model ----------------------------
(***************************************************************************)
(* A model of dsb-lab/CellTracking (src/CellTracking.py).                  *)
(*                                                                         *)
(* Conventions.  Planes (z) and time points (t) are numbered from 0 as in  *)
(* the source and are the domains of functions.  A Python list of cells is *)
(* a TLA+ sequence, so the cell index k of the source is k+1 here.         *)
(* Centroid coordinates are integers; a Euclidean distance d is kept as    *)
(* its square d*d, which preserves every comparison the code makes.        *)
(* None is written NoLabel.                                                *)
(***************************************************************************)
EXTENDS Integers, Sequences, FiniteSets, TLC

(***************************************************************************)
(* Bounds of the model.                                                    *)
(***************************************************************************)
MaxPlanesZ == 3      \* planes of a volume handed to the Z-Labeler alone
MaxCellsZ  == 3      \* detections per plane of such a volume
MaxPlanesCS == 3     \* adjacent planes of a segmented volume that hold detections
MaxCellsCS  == 2     \* detections per plane of a segmented volume
MaxWeight   == 2     \* intensity sums of a detection run over 1..MaxWeight
MaxTimes    == 3     \* time points of a tracked acquisition
MaxColumns  == 2     \* cells of one time point of a tracked acquisition
ColumnPlanes == 2    \* adjacent planes a cell of a tracked acquisition is detected on
MaxEdits    == 2     \* delete_cell edits after tracking
MaxPixels   == 3     \* pixels of the row the masks of an overlap call lie on
MaxSignal   == 8     \* planes of the label-track whose barriers are detected
MaxTrack    == 4     \* planes of the label-track whose continuity is computed
MaxAdds     == 1     \* times the add mode of the editor is entered
MaxDetections == 3   \* outlines the external model returns on one plane
SlicesRS    == 2     \* planes of a stack whose raw segmentation is followed
MaxTimesED  == 2     \* time points of an acquisition opened in the tracking editor
MaxWindows  == 2     \* times plot_tracking opens an editor window on an acquisition
MaxPicks    == 3     \* cells in the selection of the combine mode of the segmentation editor

(***************************************************************************)
(* Program constants.                                                      *)
(***************************************************************************)
distance_th == 11    \* np.round(distance_th_z/xyresolution) = round(3.0/0.2767553)

NoLabel == -1

(***************************************************************************)
(* Centroids the detections are drawn from, as <<centersi, centersj>>.     *)
(* Distances: P2-P3 is 4, P1-P2 and P2-P4 are 20, all the others exceed    *)
(* distance_th.                                                            *)
(***************************************************************************)
Points == { <<0, 0>>, <<12, 16>>, <<12, 20>>, <<24, 32>> }

\* Sequences over S of length at most n without repetition.
InjSeqs(S, n) ==
    UNION { { s \in [1..k -> S] : \A a, b \in 1..k : a # b => s[a] # s[b] } : k \in 0..n }

Range(s) == { s[k] : k \in DOMAIN s }

Max(S) == CHOOSE m \in S : \A x \in S : x <= m
Min(S) == CHOOSE m \in S : \A x \in S : m <= x

\* np.max / np.min of a non-empty list
SeqMax(s) == Max(Range(s))
SeqMin(s) == Min(Range(s))

\* np.argmin of a non-empty list: the first position of the minimum
ArgMin(s) == Min({ k \in DOMAIN s : s[k] = SeqMin(s) })

\* list.index(x) / np.where(arr == x)[0][0]: the first position of x
IndexOf(s, x) == Min({ k \in DOMAIN s : s[k] = x })

\* list.pop(k)
Pop(s, k) == [ n \in 1..(Len(s) - 1) |-> IF n < k THEN s[n] ELSE s[n + 1] ]

\* np.linalg.norm(poscell - poscell2), squared
Dist2(i1, j1, i2, j2) == (i1 - i2) * (i1 - i2) + (j1 - j2) * (j1 - j2)

(***************************************************************************)
(* _compute_distances_with_pre_post_z: for cell k of plane z, the cells of *)
(* plane z-1 whose distance is below distance_th, in index order, and      *)
(* their distances (_distances_idx[z][cell][0], _distances_val[z][cell][0]).*)
(***************************************************************************)
RECURSIVE PreScan(_, _, _, _, _)
PreScan(ci, cj, z, k, n) ==
    IF n = 0 THEN << >>
    ELSE LET rest == PreScan(ci, cj, z, k, n - 1)
             d    == Dist2(ci[z][k], cj[z][k], ci[z - 1][n], cj[z - 1][n])
         IN  IF d < distance_th * distance_th
             THEN Append(rest, [idx |-> n, val |-> d])
             ELSE rest

DistancesPre(ci, cj, z, k) ==
    IF z > 0 THEN PreScan(ci, cj, z, k, Len(ci[z - 1])) ELSE << >>

distances_idx(ci, cj, z, k) ==
    LET p == DistancesPre(ci, cj, z, k) IN [ n \in DOMAIN p |-> p[n].idx ]

distances_val(ci, cj, z, k) ==
    LET p == DistancesPre(ci, cj, z, k) IN [ n \in DOMAIN p |-> p[n].val ]


(***************************************************************************)
(* _assign_labels.  A frame holds the locals of one run and the labels     *)
(* built so far:                                                           *)
(*   labels, z, cell, last_label, used_labels, current_labels              *)
(* and pc: "loop" while cells remain, "done" after the last cell,          *)
(* "IndexError" when line 238 raised.                                      *)
(***************************************************************************)

\* the first plane at or after z that holds a cell, or slices
RECURSIVE NextPlane(_, _, _)
NextPlane(O, n, z) ==
    IF z >= n THEN n
    ELSE IF Len(O[z]) > 0 THEN z ELSE NextPlane(O, n, z + 1)

\* lines 210-213: the frame on entry, positioned on the first cell
AssignLabelsEnter(v) ==
    LET z0 == NextPlane(v.Outlines, v.slices, 0)
    IN  [ labels         |-> [ z \in 0..(v.slices - 1) |-> << >> ],
          z              |-> z0,
          cell           |-> 1,
          last_label     |-> NoLabel,
          used_labels    |-> << >>,
          current_labels |-> << >>,
          pc             |-> IF z0 = v.slices THEN "done" ELSE "loop" ]

(***************************************************************************)
(* Lines 219-256 for the cell the frame is positioned on: which branch is  *)
(* taken (kind), the label the cell gets, and the cell of the plane that   *)
(* is relabelled last_label+1 (other, 0 when none).                        *)
(*   "first"    z = 0, or nothing labelled yet       (lines 220-229)       *)
(*   "nocand"   no candidate on plane z-1            (line 232)            *)
(*   "inherit"  the nearest candidate's label, free  (lines 234-235)       *)
(*   "displace" conflict, the earlier holder yields  (lines 250-251,       *)
(*              255-256)                                                   *)
(*   "lose"     conflict, this cell yields           (line 253)            *)
(*   "raise"    conflict on label 0: current_labels==label compares a list *)
(*              with the int 0 (the one label that np.max did not make),   *)
(*              is False, and np.where(False)[0][0] raises (line 238)      *)
(***************************************************************************)
AssignLabelsBranch(f, v) ==
    LET z     == f.z
        k     == f.cell
        dval  == distances_val(v.centersi, v.centersj, z, k)
        didx  == distances_idx(v.centersi, v.centersj, z, k)
        fresh == f.last_label + 1
    IN  IF f.last_label = NoLabel
        THEN [ kind |-> "first", label |-> 0, other |-> 0 ]
        ELSE IF z = 0
        THEN [ kind |-> "first", label |-> fresh, other |-> 0 ]
        ELSE IF Len(dval) = 0
        THEN [ kind |-> "nocand", label |-> fresh, other |-> 0 ]
        ELSE
        LET label == f.labels[z - 1][didx[ArgMin(dval)]]
        IN  IF label \notin Range(f.current_labels)
            THEN [ kind |-> "inherit", label |-> label, other |-> 0 ]
            ELSE IF label = 0
            THEN [ kind |-> "raise", label |-> label, other |-> 0 ]
            ELSE
            LET curr_dist   == SeqMin(dval)
                idx_other   == IndexOf(f.current_labels, label)
                other_val   == distances_val(v.centersi, v.centersj, z, idx_other)
                close_cells == Len(other_val) # 0
            IN  IF close_cells /\ ~(curr_dist < SeqMin(other_val))
                THEN [ kind |-> "lose", label |-> fresh, other |-> 0 ]
                ELSE [ kind |-> "displace", label |-> label, other |-> idx_other ]

\* lines 217-262: one iteration of the cell loop, and the move to the next cell
AssignLabelsCell(f, v) ==
    LET z     == f.z
        fresh == f.last_label + 1
        more  == f.cell < Len(v.Outlines[z])
        zn    == IF more THEN z ELSE NextPlane(v.Outlines, v.slices, z + 1)
        \* the frame after the branch b
        after(b) ==
            LET cur  == IF b.other = 0 THEN f.current_labels
                        ELSE [ f.current_labels EXCEPT ![b.other] = fresh ]
                labz == IF b.other = 0 THEN f.labels[z]
                        ELSE [ f.labels[z] EXCEPT ![b.other] = fresh ]
                used == Append(f.used_labels, b.label)
            IN  IF b.kind = "raise"
                THEN [ f EXCEPT !.pc = "IndexError" ]
                ELSE [ labels         |-> [ f.labels EXCEPT ![z] = Append(labz, b.label) ],
                       z              |-> zn,
                       cell           |-> IF more THEN f.cell + 1 ELSE 1,
                       last_label     |-> SeqMax(used),
                       used_labels    |-> used,
                       current_labels |-> IF more THEN Append(cur, b.label) ELSE << >>,
                       pc             |-> IF zn = v.slices THEN "done" ELSE "loop" ]
    IN  after(AssignLabelsBranch(f, v))

\* lines 209-262: the whole of _assign_labels
RECURSIVE AssignLabelsRun(_, _)
AssignLabelsRun(f, v) ==
    IF f.pc = "loop" THEN AssignLabelsRun(AssignLabelsCell(f, v), v) ELSE f

(***************************************************************************)
(* A CellSegmentation object is a record                                   *)
(*   slices, Outlines, Masks, centersi, centersj, labels,                  *)
(*   Zlabel_l, Zlabel_z, labels_centers, centers_positions,                *)
(*   centers_weight, centers_outlines, err                                 *)
(* with the per-plane lists as functions of the plane.  An outline is the  *)
(* pair <<z, k>> of the plane and position at which the segmentation       *)
(* produced it.  A mask is a record [px, ci, cj, w]: its pixel set, and    *)
(* what the plane's image gives for it, the intensity-weighted centroid    *)
(* (lines 174-175) and the intensity sum (lines 301, 461).  err is "ok"    *)
(* until a method raises, then the name of the exception.                  *)
(*                                                                         *)
(* Overlap scores and evidence values are rationals <<n, d>> with d > 0.   *)
(***************************************************************************)
ZLabelRange        == 30     \* for z in range(30), line 268
BarrierGap         == 5      \* if dif < 5, line 389
z_neighborhood     == 2      \* z_neighborhood=2, line 22
relative_overlap   == FALSE  \* relative_overlap=False, line 22
use_full_matrix    == TRUE   \* use_full_matrix_to_compute_overlap=True, line 22
overlap_gradient_th == << 3, 10 >>   \* overlap_gradient_th=0.3, line 22

RLess(a, b) == a[1] * b[2] < b[1] * a[2]
REq(a, b)   == a[1] * b[2] = b[1] * a[2]
RAdd(a, b)  == << a[1] * b[2] + b[1] * a[2], a[2] * b[2] >>
RSub(a, b)  == << a[1] * b[2] - b[1] * a[2], a[2] * b[2] >>
RScale(k, a) == << k * a[1], a[2] >>

RECURSIVE Gcd(_, _)
Gcd(a, b) == IF b = 0 THEN a ELSE Gcd(b, a % b)

\* the same rational in lowest terms
RNorm(a) ==
    LET g == Gcd(IF a[1] < 0 THEN -a[1] ELSE a[1], a[2])
    IN  << a[1] \div g, a[2] \div g >>

IsOk(cs) == cs.err = "ok"

\* _extract_cell_centers, lines 153-177
ExtractCellCenters(cs) ==
    [ cs EXCEPT
        !.centersi = [ z \in 0..(cs.slices - 1) |->
                         [ k \in DOMAIN cs.Outlines[z] |-> cs.Masks[z][k].ci ] ],
        !.centersj = [ z \in 0..(cs.slices - 1) |->
                         [ k \in DOMAIN cs.Outlines[z] |-> cs.Masks[z][k].cj ] ] ]

\* _assign_labels on the object, lines 209-262
AssignLabels(cs) ==
    LET labelled(f) == [ cs EXCEPT !.labels = f.labels,
                                   !.err    = IF f.pc = "done" THEN "ok" ELSE f.pc ]
    IN  labelled(AssignLabelsRun(AssignLabelsEnter(cs), cs))

(***************************************************************************)
(* _label_per_z, lines 264-274: the labels of planes 0..29 in order of     *)
(* first appearance, each with the planes it was met on (a plane once per  *)
(* cell carrying the label).  self.labels[z] raises for z >= slices.       *)
(***************************************************************************)
RECURSIVE LabelPerZScan(_, _, _, _, _)
LabelPerZScan(labels, n, z, k, acc) ==
    IF z >= n THEN acc
    ELSE IF k > Len(labels[z]) THEN LabelPerZScan(labels, n, z + 1, 1, acc)
    ELSE LET l   == labels[z][k]
             new == l \notin Range(acc.l)
             ls  == IF new THEN Append(acc.l, l) ELSE acc.l
             zs  == IF new THEN Append(acc.z, << >>) ELSE acc.z
             id  == IndexOf(ls, l)
         IN  LabelPerZScan(labels, n, z, k + 1,
                           [ l |-> ls, z |-> [ zs EXCEPT ![id] = Append(@, z) ] ])

LabelPerZ(cs) ==
    LET n   == IF cs.slices < ZLabelRange THEN cs.slices ELSE ZLabelRange
        acc == LabelPerZScan(cs.labels, n, 0, 1, [ l |-> << >>, z |-> << >> ])
    IN  [ cs EXCEPT !.Zlabel_l = acc.l,
                    !.Zlabel_z = acc.z,
                    !.err      = IF cs.slices < ZLabelRange THEN "IndexError" ELSE "ok" ]

\* _nuclear_intensity_cell_z, lines 290-301 (after its _label_per_z)
Zsignals(cs) ==
    [ c \in DOMAIN cs.Zlabel_l |->
        [ n \in DOMAIN cs.Zlabel_z[c] |->
            LET z == cs.Zlabel_z[c][n]
            IN  cs.Masks[z][IndexOf(cs.labels[z], cs.Zlabel_l[c])].w ] ]

\* an overlap whose relative mode divides by the larger mask
overlap_of_larger(relative, m1, m2) ==
    LET cl == Cardinality(m1.px \cap m2.px)
        a  == Cardinality(m1.px)
        b  == Cardinality(m2.px)
        denominador == IF relative THEN (IF a < b THEN b ELSE a) ELSE a + b
    IN  IF a = 0 THEN "ValueError"
        ELSE IF denominador = 0 THEN "nan"
        ELSE RNorm(<< (IF relative THEN 100 ELSE 200) * cl, denominador >>)

\* an overlap whose relative mode divides by the first mask
overlap_of_first(relative, m1, m2) ==
    LET cl == Cardinality(m1.px \cap m2.px)
        a  == Cardinality(m1.px)
        b  == Cardinality(m2.px)
        denominador == IF relative THEN a ELSE a + b
    IN  IF a = 0 THEN "ValueError"
        ELSE IF denominador = 0 THEN "nan"
        ELSE RNorm(<< (IF relative THEN 100 ELSE 200) * cl, denominador >>)

(***************************************************************************)
(* _compute_overlap, lines 303-317, with relative = self._relative.  A     *)
(* mask is the array _points_within_hull returns (line 151): one row per   *)
(* pixel, no pixel twice, and np.array([]) of shape (0,) when it has no    *)
(* pixel.  An empty m1 fails the unpacking of m1.shape (line 304); with an *)
(* empty m2 the intersection is empty and the division is by a numpy       *)
(* integer, which gives nan for 0/0 instead of raising.                    *)
(***************************************************************************)
compute_overlap(relative, m1, m2) ==
    LET cl == Cardinality(m1.px \cap m2.px)
        a  == Cardinality(m1.px)
        b  == Cardinality(m2.px)
        denominador == IF relative THEN (IF a < b THEN a ELSE b) ELSE a + b
    IN  IF a = 0 THEN "ValueError"
        ELSE IF denominador = 0 THEN "nan"
        ELSE RNorm(<< (IF relative THEN 100 ELSE 200) * cl, denominador >>)

\* lines 321-335: the matrix of a track on the planes zs with the masks msks,
\* fullmat = self._fullmat; an entry that is not computed stays 0
PlanesOverlap(fullmat, relative, zs, msks) ==
    [ i \in DOMAIN zs |->
        [ j \in DOMAIN zs |->
            IF (fullmat \/ j < i) /\ zs[j] # zs[i]
            THEN compute_overlap(relative, msks[i], msks[j])
            ELSE << 0, 1 >> ] ]

\* _compute_planes_overlap, lines 319-335: the matrix of label-track c
Zoverlaps(cs, c) ==
    PlanesOverlap(use_full_matrix, relative_overlap, cs.Zlabel_z[c],
                  [ i \in DOMAIN cs.Zlabel_z[c] |->
                      cs.Masks[cs.Zlabel_z[c][i]]
                              [IndexOf(cs.labels[cs.Zlabel_z[c][i]], cs.Zlabel_l[c])] ])

RECURSIVE RSum(_, _)
RSum(f, S) ==
    IF S = {} THEN << 0, 1 >>
    ELSE LET x == CHOOSE y \in S : TRUE IN RNorm(RAdd(f[x], RSum(f, S \ {x})))

\* lines 341-352: the smoothed continuity from the matrix Zoverlap
OverlapMeasure(Zoverlap) ==
    [ z \in DOMAIN Zoverlap |->
        LET N == { i \in DOMAIN Zoverlap : i # z /\ i >= z - z_neighborhood
                                                /\ i <= z + z_neighborhood }
        IN  IF N = {} THEN << 0, 1 >>
            ELSE LET t == RSum(Zoverlap[z], N)
                 IN  RNorm(<< t[1], t[2] * Cardinality(N) >>) ]

\* _compute_overlap_measure, lines 337-352: the smoothed continuity of track c
Zoverlaps_conv(cs, c) == OverlapMeasure(Zoverlaps(cs, c))

(***************************************************************************)
(* _detect_cell_barriers, lines 354-418, for one label-track.  The         *)
(* evidence signal x is a sequence of rationals; index i here is index     *)
(* i-1 of the source.                                                      *)
(***************************************************************************)
\* line 361: intensity = Zsignals[c] * Zoverlaps_conv[c]
Evidence(sig, conv) == [ i \in DOMAIN sig |-> RNorm(RScale(sig[i], conv[i])) ]

\* lines 364-365 and 368-369
IsValley(x, i) ==
    /\ (i = 1 \/ RLess(x[i], x[i - 1]))
    /\ (i = Len(x) \/ RLess(x[i], x[i + 1]))

IsPeak(x, i) ==
    /\ (i = 1 \/ RLess(x[i - 1], x[i]))
    /\ (i = Len(x) \/ RLess(x[i + 1], x[i]))

\* the members of a set of integers in increasing order
RECURSIVE SortedSeq(_)
SortedSeq(S) ==
    IF S = {} THEN << >>
    ELSE LET m == Max(S) IN Append(SortedSeq(S \ {m}), m)

\* list.append(x) followed by list.sort()
RECURSIVE InsertSorted(_, _)
InsertSorted(s, x) ==
    IF s = << >> THEN << x >>
    ELSE IF s[Len(s)] <= x THEN Append(s, x)
    ELSE Append(InsertSorted(SubSeq(s, 1, Len(s) - 1), x), s[Len(s)])

\* lines 373-379: the valleys that are not at either end
InitialBarriers(x) ==
    SortedSeq({ i \in DOMAIN x : IsValley(x, i) /\ i # 1 /\ i # Len(x) })

\* np.argmax(x[lo:hi]) + lo over the positions lo..hi-1: the first maximum
ArgMaxIn(x, lo, hi) ==
    CHOOSE i \in lo..(hi - 1) :
        /\ \A j \in lo..(hi - 1) : ~RLess(x[i], x[j])
        /\ \A j \in lo..(i - 1) : RLess(x[j], x[i])

(***************************************************************************)
(* Lines 387-397: the for loop of one pass over the pairs (i, i+1) of the  *)
(* barrier list b as it stood when the pass began; st holds the signal,    *)
(* the positions to pop and the barriers to add.                           *)
(***************************************************************************)
RECURSIVE MergeScan(_, _, _)
MergeScan(b, i, st) ==
    IF i >= Len(b) THEN st
    ELSE IF b[i + 1] - b[i] < BarrierGap
    THEN LET new_cb == ArgMaxIn(st.x, b[i], b[i + 1])
             flat   == [ j \in DOMAIN st.x |->
                           IF j >= b[i] /\ j <= b[i + 1] THEN st.x[new_cb] ELSE st.x[j] ]
         IN  MergeScan(b, i + 1, [ x   |-> flat,
                                   pop |-> st.pop \cup {i, i + 1},
                                   add |-> Append(st.add, new_cb) ])
    ELSE MergeScan(b, i + 1, st)

RECURSIVE InsertAll(_, _)
InsertAll(s, a) ==
    IF a = << >> THEN s ELSE InsertAll(InsertSorted(s, Head(a)), Tail(a))

RemoveAt(s, P) ==
    LET keep == SortedSeq(DOMAIN s \ P) IN [ n \in DOMAIN keep |-> s[keep[n]] ]

\* a pass that never sets keep_checking (line 396 left out)
MergePassOnce(m) ==
    LET st == MergeScan(m.b, 1, [ x |-> m.x, pop |-> {}, add |-> << >> ])
    IN  [ x |-> st.x,
          b |-> InsertAll(RemoveAt(m.b, st.pop), st.add),
          keep_checking |-> FALSE ]

\* a pass that never clears keep_checking (line 385 left out)
MergePassAgain(m) ==
    LET st == MergeScan(m.b, 1, [ x |-> m.x, pop |-> {}, add |-> << >> ])
    IN  [ x |-> st.x,
          b |-> InsertAll(RemoveAt(m.b, st.pop), st.add),
          keep_checking |-> TRUE ]

\* lines 384-403: one pass of the while loop
MergePass(m) ==
    LET st == MergeScan(m.b, 1, [ x |-> m.x, pop |-> {}, add |-> << >> ])
    IN  [ x |-> st.x,
          b |-> InsertAll(RemoveAt(m.b, st.pop), st.add),
          keep_checking |-> st.add # << >> ]

\* lines 381-403: the while loop
RECURSIVE MergeLoop(_)
MergeLoop(m) ==
    IF m.keep_checking THEN MergeLoop(MergePass(m)) ELSE m

\* lines 407-413 for barrier cb: "ValueError" when a side has no peak (the
\* .min()/.max() of an empty array), else whether the barrier is popped
DepthTest(th, x, peaks, cb) ==
    LET right == { q \in peaks : q > cb }
        left  == { q \in peaks : q < cb }
    IN  IF right = {} \/ left = {} THEN "ValueError"
        ELSE LET p1 == x[Max(left)]
                 p2 == x[Min(right)]
                 inten_peak == IF RLess(p2, p1) THEN p2 ELSE p1
                 inten_cb   == x[cb]
             IN  IF inten_peak[1] = 0
                 \* a division by zero: nan (kept) for 0/0, -inf (popped) otherwise
                 THEN IF inten_cb[1] = 0 THEN "keep" ELSE "pop"
                 ELSE IF RLess(RSub(inten_peak, inten_cb),
                               << th[1] * inten_peak[1], th[2] * inten_peak[2] >>)
                      THEN "pop" ELSE "keep"

\* lines 367-369: datapeaks_idx
Peaks(x0) == { i \in DOMAIN x0 : IsPeak(x0, i) }

\* lines 405-418: [err, b], b the barriers of m that survive their depth tests
DepthFilter(th, peaks, m) ==
    LET popped(test) ==
            IF \E n \in DOMAIN test : test[n] = "ValueError"
            THEN [ err |-> "ValueError", b |-> m.b ]
            ELSE [ err |-> "ok", b |-> RemoveAt(m.b, { n \in DOMAIN test : test[n] = "pop" }) ]
    IN  popped([ n \in DOMAIN m.b |-> DepthTest(th, m.x, peaks, m.b[n]) ])

\* lines 371-381: the barrier list and the flag on entry of the while loop
MergeEnter(x0) == [ x |-> x0, b |-> InitialBarriers(x0), keep_checking |-> TRUE ]

\* lines 361-418 for one track: [err, b], b the surviving barriers
TrackBarriers(sig, conv) ==
    LET \* lines 363-418 on the evidence x0
        merged(x0) ==
            DepthFilter(overlap_gradient_th, Peaks(x0), MergeLoop(MergeEnter(x0)))
    IN  merged(Evidence(sig, conv))

\* _detect_cell_barriers: self._cellbarriers, one list per label-track
DetectCellBarriers(cs) ==
    [ c \in DOMAIN cs.Zlabel_l |-> TrackBarriers(Zsignals(cs)[c], Zoverlaps_conv(cs, c)) ]

\* a pop that takes the cell from labels and Outlines and leaves its mask
PopLabelledKeepsMask(cs, z, l) ==
    IF l \notin Range(cs.labels[z]) THEN [ cs EXCEPT !.err = "ValueError" ]
    ELSE LET lid == IndexOf(cs.labels[z], l)
         IN  [ cs EXCEPT !.labels[z]   = Pop(@, lid),
                         !.Outlines[z] = Pop(@, lid) ]

(***************************************************************************)
(* Lines 432-436, 286-288: pop the first cell of plane z carrying label l  *)
(* from labels, Outlines and Masks; list.index raises ValueError when the  *)
(* label is not on the plane.                                              *)
(***************************************************************************)
PopLabelled(cs, z, l) ==
    IF l \notin Range(cs.labels[z]) THEN [ cs EXCEPT !.err = "ValueError" ]
    ELSE LET lid == IndexOf(cs.labels[z], l)
         IN  [ cs EXCEPT !.labels[z]   = Pop(@, lid),
                         !.Outlines[z] = Pop(@, lid),
                         !.Masks[z]    = Pop(@, lid) ]

RECURSIVE PopAll(_, _)
PopAll(cs, rem) ==
    IF rem = << >> \/ ~IsOk(cs) THEN cs
    ELSE PopAll(PopLabelled(cs, Head(rem)[1], Head(rem)[2]), Tail(rem))

\* lines 425-431: the (plane, label) pairs of the barriers, track by track
RECURSIVE BarrierPairs(_, _, _)
BarrierPairs(cs, bar, c) ==
    IF c > Len(bar) THEN << >>
    ELSE [ n \in DOMAIN bar[c].b |-> << cs.Zlabel_z[c][bar[c].b[n]], cs.Zlabel_l[c] >> ]
         \o BarrierPairs(cs, bar, c + 1)

\* _separate_concatenated_cells, lines 420-436
SeparateConcatenatedCells(cs) ==
    LET pops(c1, bar) ==
            IF \E c \in DOMAIN bar : bar[c].err # "ok"
            THEN [ c1 EXCEPT !.err = "ValueError" ]
            ELSE PopAll(c1, BarrierPairs(c1, bar, 1))
        separate(c1) ==
            IF ~IsOk(c1) THEN c1 ELSE pops(c1, DetectCellBarriers(c1))
    IN  separate(LabelPerZ(cs))

\* line 280: a track on fewer than 2 planes is short
ShortTrack(zs) == Len(zs) < 2

\* lines 282-288 for plane z: for l in labels_to_remove, in order
RECURSIVE RemoveFromPlane(_, _, _)
RemoveFromPlane(cs, z, rem) ==
    IF rem = << >> THEN cs
    ELSE RemoveFromPlane(
             IF Head(rem) \in Range(cs.labels[z]) THEN PopLabelled(cs, z, Head(rem)) ELSE cs,
             z, Tail(rem))

RECURSIVE RemoveFromPlanes(_, _, _)
RemoveFromPlanes(cs, z, rem) ==
    IF z >= cs.slices THEN cs
    ELSE RemoveFromPlanes(RemoveFromPlane(cs, z, rem), z + 1, rem)

\* _remove_short_cells, lines 276-288
RemoveShortCells(cs) ==
    LET labels_to_remove(c1, ids) == [ n \in DOMAIN ids |-> c1.Zlabel_l[ids[n]] ]
        remove(c1) ==
            IF ~IsOk(c1) THEN c1
            ELSE RemoveFromPlanes(c1, 0, labels_to_remove(c1,
                     SortedSeq({ id \in DOMAIN c1.Zlabel_l : ShortTrack(c1.Zlabel_z[id]) })))
    IN  remove(LabelPerZ(cs))

\* _update, lines 438-444
Update(cs) ==
    LET per_z(c1) == IF ~IsOk(c1) THEN c1 ELSE LabelPerZ(c1)
    IN  per_z(AssignLabels(ExtractCellCenters(cs)))

\* a consolidation in which an occurrence of equal weight also replaces
HeavierOrEqual(curr_weight, prev_weight) == curr_weight >= prev_weight

\* line 467: the later occurrence replaces the kept one
Heavier(curr_weight, prev_weight) == curr_weight > prev_weight

\* lines 453-470 for cell k of plane z
Position3dCell(cs, z, k) ==
    LET label == cs.labels[z][k]
        w     == cs.Masks[z][k].w
        pos   == << z, cs.centersj[z][k], cs.centersi[z][k] >>
    IN  IF label \notin Range(cs.labels_centers)
        THEN [ cs EXCEPT !.labels_centers    = Append(@, label),
                         !.centers_positions = Append(@, pos),
                         !.centers_weight    = Append(@, w),
                         !.centers_outlines  = Append(@, cs.Outlines[z][k]) ]
        ELSE LET idx_prev == IndexOf(cs.labels_centers, label)
             IN  IF Heavier(w, cs.centers_weight[idx_prev])
                 THEN [ cs EXCEPT !.centers_positions[idx_prev] = pos,
                                  !.centers_outlines[idx_prev]  = cs.Outlines[z][k],
                                  !.centers_weight[idx_prev]    = w ]
                 ELSE cs

RECURSIVE Position3dScan(_, _, _)
Position3dScan(cs, z, k) ==
    IF z >= cs.slices THEN cs
    ELSE IF k > Len(cs.Outlines[z]) THEN Position3dScan(cs, z + 1, 1)
    ELSE Position3dScan(Position3dCell(cs, z, k), z, k + 1)

\* _position3d, lines 446-470
Position3d(cs) ==
    Position3dScan([ cs EXCEPT !.labels_centers    = << >>,
                               !.centers_positions = << >>,
                               !.centers_weight    = << >>,
                               !.centers_outlines  = << >> ], 0, 1)

\* update_labels, lines 515-517
UpdateLabels(cs) ==
    LET positions(c1) == IF IsOk(c1) THEN Position3d(c1) ELSE c1
    IN  positions(Update(cs))

(***************************************************************************)
(* __call__, lines 49-66, after the raw segmentation: the stages in order. *)
(***************************************************************************)
Stages == << "update1", "separate1", "update2", "separate2", "update3",
             "remove_short", "update4", "position3d" >>

RunStage(cs, name) ==
    CASE name \in {"update1", "update2", "update3", "update4"} -> Update(cs)
      [] name \in {"separate1", "separate2"}                   -> SeparateConcatenatedCells(cs)
      [] name = "remove_short"                                 -> RemoveShortCells(cs)
      [] name = "position3d"                                   -> Position3d(cs)

RECURSIVE RunStages(_, _)
RunStages(cs, n) ==
    IF n > Len(Stages) \/ ~IsOk(cs) THEN cs
    ELSE RunStages(RunStage(cs, Stages[n]), n + 1)

\* the whole of __call__ on a freshly segmented volume
Segment(cs) == RunStages(cs, 1)

(***************************************************************************)
(* State.                                                                  *)
(*   vol, al     a volume with its centroids and the frame of one run of   *)
(*               _assign_labels on it                                      *)
(*   cs, stage   a CellSegmentation object and the position of its         *)
(*               __call__ in Stages                                        *)
(*   ct, trk     a CellTracking object and the frame of its last run of    *)
(*               cell_tracking                                             *)
(*   arg, ret    the arguments of a call of one method taken alone, and    *)
(*               what it has computed and returned so far                  *)
(* A specification that does not use a variable leaves it at Idle.         *)
(***************************************************************************)
VARIABLES vol, al, cs, stage, ct, trk, arg, ret

vars == << vol, al, cs, stage, ct, trk, arg, ret >>

Idle == "idle"

(***************************************************************************)
(* The Z-Labeler on its own: a volume of MaxPlanesZ planes whose centroids *)
(* are given, labelled one cell at a time.                                 *)
(***************************************************************************)
\* the centroid lists of one plane
PlanesZ == InjSeqs(Points, MaxCellsZ)

VolumeZ(c) ==
    [ slices   |-> MaxPlanesZ,
      Outlines |-> [ z \in 0..(MaxPlanesZ - 1) |-> [ k \in DOMAIN c[z] |-> << z, k >> ] ],
      centersi |-> [ z \in 0..(MaxPlanesZ - 1) |-> [ k \in DOMAIN c[z] |-> c[z][k][1] ] ],
      centersj |-> [ z \in 0..(MaxPlanesZ - 1) |-> [ k \in DOMAIN c[z] |-> c[z][k][2] ] ] ]

InitZ ==
    /\ \E c \in [ 0..(MaxPlanesZ - 1) -> PlanesZ ] :
        /\ vol = VolumeZ(c)
        /\ al = AssignLabelsEnter(VolumeZ(c))
    /\ cs = Idle
    /\ stage = Idle
    /\ ct = Idle
    /\ trk = Idle
    /\ arg = Idle
    /\ ret = Idle

AssignLabelsStep ==
    /\ al.pc = "loop"
    /\ al' = AssignLabelsCell(al, vol)
    /\ UNCHANGED << vol, cs, stage, ct, trk, arg, ret >>

NextZ == AssignLabelsStep

SpecZ == InitZ /\ [][NextZ]_vars

(***************************************************************************)
(* CellSegmentation.__call__ on one volume, stage by stage.  The raw       *)
(* segmentation (the external model, lines 75-124) is the input: a volume  *)
(* of ZLabelRange or ZLabelRange+1 planes with detections on at most       *)
(* MaxPlanesCS adjacent planes, the last ones of the longer volume.  A     *)
(* detection is one of DetectionsCS: a centre, a mask of three pixels in a *)
(* row around it, and an intensity sum.                                    *)
(* Once __call__ has returned, one of delete_cell, combine_cells,          *)
(* complete_add_cell and update_labels is called on the volume; arg then   *)
(* holds the operation, op, and the selection it was given, list_of_cells. *)
(***************************************************************************)
Weights == 1..MaxWeight

MaskAt(p, w) ==
    [ px |-> { << p[1], p[2] - 2 >>, p, << p[1], p[2] + 2 >> },
      ci |-> p[1], cj |-> p[2], w |-> w ]

\* the detections: one centre with every weight, a near and a far one with one
DetectionsCS ==
    { MaskAt(<< 12, 16 >>, w) : w \in Weights }
        \cup { MaskAt(<< 12, 20 >>, 1), MaskAt(<< 24, 32 >>, MaxWeight) }

\* the detections of one plane, with distinct centres
PlanesCS ==
    { s \in InjSeqs(DetectionsCS, MaxCellsCS) :
        \A a, b \in DOMAIN s : a # b => << s[a].ci, s[a].cj >> # << s[b].ci, s[b].cj >> }

Shapes == { [ slices |-> ZLabelRange,     base |-> 0 ],
            [ slices |-> ZLabelRange + 1, base |-> ZLabelRange + 1 - MaxPlanesCS ] }

\* lines 79-124: Outlines and Masks as the raw segmentation leaves them
RawVolume(sh, c) ==
    LET at(z) == IF z >= sh.base /\ z < sh.base + MaxPlanesCS THEN c[z - sh.base] ELSE << >>
        none  == [ z \in 0..(sh.slices - 1) |-> << >> ]
    IN  [ slices   |-> sh.slices,
          Outlines |-> [ z \in 0..(sh.slices - 1) |-> [ k \in DOMAIN at(z) |-> << z, k >> ] ],
          Masks    |-> [ z \in 0..(sh.slices - 1) |-> at(z) ],
          centersi |-> none,
          centersj |-> none,
          labels   |-> none,
          Zlabel_l |-> << >>,
          Zlabel_z |-> << >>,
          labels_centers    |-> << >>,
          centers_positions |-> << >>,
          centers_weight    |-> << >>,
          centers_outlines  |-> << >>,
          err |-> "ok" ]

RawVolumes ==
    { RawVolume(sh, c) : sh \in Shapes, c \in [ 0..(MaxPlanesCS - 1) -> PlanesCS ] }

InitCS ==
    /\ cs \in RawVolumes
    /\ stage = 1
    /\ vol = Idle
    /\ al = Idle
    /\ ct = Idle
    /\ trk = Idle
    /\ arg = Idle
    /\ ret = Idle

\* one stage of __call__
CallStage ==
    /\ stage \in DOMAIN Stages
    /\ IsOk(cs)
    /\ cs' = RunStage(cs, Stages[stage])
    /\ stage' = stage + 1
    /\ UNCHANGED << vol, al, ct, trk, arg, ret >>

\* CellSegmentation.combine_cells, lines 535-545, with PA.list_of_cells = cells
combine_cells(CS, cells) ==
    LET labs   == [ i \in DOMAIN cells |-> cells[i][1] ]
        relabel(z, hi, lo) ==
            IF hi \notin Range(CS.labels[z]) THEN [ CS EXCEPT !.err = "IndexError" ]
            ELSE UpdateLabels([ CS EXCEPT !.labels[z][IndexOf(CS.labels[z], hi)] = lo ])
    IN  IF cells = << >> THEN CS
        ELSE relabel(cells[IndexOf(labs, SeqMax(labs))][2], SeqMax(labs), SeqMin(labs))

\* the selections CellPicker_com builds with two right-clicks, lines 1135-1174:
\* two cells of the volume with different labels, each with its plane
SelectionsCS(CS) ==
    { << << CS.labels[a[1]][a[2]], a[1] >>, << CS.labels[b[1]][b[2]], b[1] >> >> :
        a, b \in { o \in (0..(CS.slices - 1)) \X (1..MaxCellsCS) :
                     o[2] \in DOMAIN CS.labels[o[1]] } }

\* the Enter key in combine mode, lines 891-894, once __call__ has returned
CombineCells ==
    /\ stage = Len(Stages) + 1
    /\ IsOk(cs)
    /\ \E cells \in SelectionsCS(cs) :
         /\ cells[1][1] # cells[2][1]
         /\ cs' = combine_cells(cs, cells)
         /\ arg' = [ op |-> "combine_cells", list_of_cells |-> cells ]
    /\ stage' = stage + 1
    /\ UNCHANGED << vol, al, ct, trk, ret >>

\* complete_add_cell, lines 558-560: the outline and its mask are stored and
\* the labels updated
StoreCell(CS, z, hull, ptsin, c) ==
    UpdateLabels([ CS EXCEPT !.Outlines[z] = Append(@, hull),
                             !.Masks[z] = Append(@, [ px |-> ptsin, ci |-> c[1],
                                                      cj |-> c[2], w |-> 1 ]) ])

\* lines 526-531: the cell labelled lab leaves the five lists of plane z
PopCell(CS, z, lab) ==
    IF lab \notin Range(CS.labels[z]) THEN [ CS EXCEPT !.err = "IndexError" ]
    ELSE LET id_l == IndexOf(CS.labels[z], lab)
         IN  [ CS EXCEPT !.labels[z]   = Pop(@, id_l),
                         !.Outlines[z] = Pop(@, id_l),
                         !.Masks[z]    = Pop(@, id_l),
                         !.centersi[z] = Pop(@, id_l),
                         !.centersj[z] = Pop(@, id_l) ]

\* lines 525-531: the loop over the selected cells, cell = [lab, z]
RECURSIVE PopCells(_, _)
PopCells(CS, cells) ==
    IF cells = << >> \/ ~IsOk(CS) THEN CS
    ELSE PopCells(PopCell(CS, Head(cells)[2], Head(cells)[1]), Tail(cells))

\* CellSegmentation.delete_cell, lines 522-532, with PA.list_of_cells = cells
CS_delete_cell(CS, cells) ==
    LET update(c1) == IF IsOk(c1) THEN UpdateLabels(c1) ELSE c1
    IN  update(PopCells(CS, cells))

\* the selections CellPicker_del builds, lines 1096-1122: one cell with a
\* right-click, every plane of a label with a double right-click
DeleteSelectionsCS(CS) ==
    { << << CS.labels[o[1]][o[2]], o[1] >> >> :
        o \in { q \in (0..(CS.slices - 1)) \X (1..MaxCellsCS) :
                  q[2] \in DOMAIN CS.labels[q[1]] } }
      \cup { [ n \in DOMAIN CS.Zlabel_z[k] |-> << CS.Zlabel_l[k], CS.Zlabel_z[k][n] >> ] :
               k \in DOMAIN CS.Zlabel_l }

\* the Enter key in delete mode, lines 887-890, once __call__ has returned
DeleteCellCS ==
    /\ stage = Len(Stages) + 1
    /\ IsOk(cs)
    /\ \E cells \in DeleteSelectionsCS(cs) :
         /\ cs' = CS_delete_cell(cs, cells)
         /\ arg' = [ op |-> "delete_cell", list_of_cells |-> cells ]
    /\ stage' = stage + 1
    /\ UNCHANGED << vol, al, ct, trk, ret >>

\* the planes on which the raw segmentation may have detections
DetectionPlanes(CS) ==
    IF CS.slices = ZLabelRange THEN 0..(MaxPlanesCS - 1)
    ELSE (CS.slices - MaxPlanesCS)..(CS.slices - 1)

\* complete_add_cell, lines 551-561, on an outline drawn with enough points:
\* the drawn cell is a detection of DetectionsCS of weight 1, its outline the
\* centre of the detection
AddCell ==
    /\ stage = Len(Stages) + 1
    /\ IsOk(cs)
    /\ \E z \in DetectionPlanes(cs), m \in { d \in DetectionsCS : d.w = 1 } :
         /\ cs' = StoreCell(cs, z, << m.ci, m.cj >>, m.px, << m.ci, m.cj >>)
         /\ arg' = [ op |-> "complete_add_cell", list_of_cells |-> << >> ]
    /\ stage' = stage + 1
    /\ UNCHANGED << vol, al, ct, trk, ret >>

\* update_labels, lines 515-517, called once __call__ has returned
CallUpdateLabels ==
    /\ stage = Len(Stages) + 1
    /\ IsOk(cs)
    /\ cs' = UpdateLabels(cs)
    /\ arg' = [ op |-> "update_labels", list_of_cells |-> << >> ]
    /\ stage' = stage + 1
    /\ UNCHANGED << vol, al, ct, trk, ret >>

NextCS == CallStage \/ CombineCells \/ DeleteCellCS \/ AddCell \/ CallUpdateLabels

SpecCS == InitCS /\ [][NextCS]_vars

(***************************************************************************)
(* CellTracking.  The object is a record                                   *)
(*   times, CSt, TLabels, TCenters, TOutlines, label_correspondance,       *)
(*   FinalLabels, FinalCenters, FinalOulines, pc, t, edits, list_of_cells  *)
(* whose per-time lists are functions of the time point; pc is the         *)
(* position of the program ("cell_segmentation", "cell_tracking", then     *)
(* "ui" when __call__ has returned, "raised" when it raised), t the index  *)
(* of the loop of cell_segmentation, edits the number of delete_cell       *)
(* edits made and list_of_cells the selection PACT.list_of_cells of the    *)
(* tracking editor.  The frame of a run of cell_tracking is a record            *)
(*   pc, t, FinalLabels, FinalCenters, FinalOutlines, labmax               *)
(* with pc "loop" while time points remain, "done" after the last one and  *)
(* the name of the exception when a line raised.                           *)
(*                                                                         *)
(* Tracking distances are np.linalg.norm of pixel differences scaled by    *)
(* 0.2767553 (lines 1372-1375).  They are kept as squared pixel distances: *)
(* d * 0.2767553 < 7.5 iff d*d < 735, and d * 0.2767553 < 100.0 iff        *)
(* d*d < 130560.                                                           *)
(***************************************************************************)
z_gate       == 2        \* np.abs(...) > 2, line 1376
gated_dist2  == 130560   \* Dists[i,j] = 100.0, line 1377
tracking_th2 == 735      \* Dists[i,j] < 7.5, line 1393
PA_t         == 0        \* PlotActionCT: self.t = 0, self.CS = CT.CSt[self.t], lines 1567-1570

\* f with x at index n, for a list kept as a function of 0..n-1
Append0(f, n, x) == [ u \in 0..n |-> IF u = n THEN x ELSE f[u] ]

Abs(x) == IF x < 0 THEN -x ELSE x

\* line 1376 with the gate left out
ZGatedNever(z1, z2) == FALSE

\* line 1376
ZGated(z1, z2) == Abs(z1 - z2) > z_gate

\* lines 1372-1377: one entry of Dists, from two centers [z, ys, xs]
TrackDist(c1, c2) ==
    IF ZGated(c1[1], c2[1]) THEN gated_dist2
    ELSE Dist2(c1[2], c1[3], c2[2], c2[3])

\* lines 1370-1377
Dists(fr, o, t) ==
    [ i \in DOMAIN fr.FinalLabels[t - 1] |->
        [ j \in DOMAIN o.TLabels[t] |->
            TrackDist(fr.FinalCenters[t - 1][i], o.TCenters[t][j]) ] ]

\* lines 1386-1387: np.argmin over axis 0 and over axis 1
ArgMinAxis0(D) == [ j \in DOMAIN D[1] |-> ArgMin([ i \in DOMAIN D |-> D[i][j] ]) ]

ArgMinAxis1(D) == [ i \in DOMAIN D |-> ArgMin(D[i]) ]

\* lines 1388-1398: the accepted [past, future] pairs, in the order of the loop
correspondance(D) ==
    LET a == ArgMinAxis0(D)
        b == ArgMinAxis1(D)
    IN  SelectSeq([ i \in DOMAIN D |-> << i, b[i] >> ],
                  LAMBDA p : p[1] = a[p[2]] /\ D[p[1]][p[2]] < tracking_th2)

\* line 1364 with the second field cleared
CorrespondanceCleared(lab) == << lab, 0 >>

\* line 1364
CorrespondanceAtZero(lab) == << lab, lab >>

\* extract_labels, lines 1337-1346
extract_labels(o) ==
    [ o EXCEPT
        !.TLabels   = [ t \in 0..(o.times - 1) |-> o.CSt[t].labels_centers ],
        !.TCenters  = [ t \in 0..(o.times - 1) |-> o.CSt[t].centers_positions ],
        !.TOutlines = [ t \in 0..(o.times - 1) |-> o.CSt[t].centers_outlines ],
        !.label_correspondance = [ t \in 0..(o.times - 1) |-> << >> ] ]

\* lines 1350-1355: the frame on entry
CellTrackingEnter ==
    [ pc |-> "loop", t |-> 0, FinalLabels |-> << >>, FinalCenters |-> << >>,
      FinalOutlines |-> << >>, labmax |-> NoLabel ]

\* lines 1411-1413 after the last time point, else the next iteration
CellTrackingNext(o, fr) ==
    IF fr.t + 1 < o.times
    THEN [ o |-> o, fr |-> [ fr EXCEPT !.t = @ + 1 ] ]
    ELSE [ o  |-> [ o EXCEPT !.FinalLabels  = fr.FinalLabels,
                             !.FinalCenters = fr.FinalCenters,
                             !.FinalOulines = fr.FinalOutlines ],
           fr |-> [ fr EXCEPT !.pc = "done" ] ]

\* lines 1358-1364: the iteration t = 0; np.max of an empty list raises
CellTrackingFirst(o, fr) ==
    LET f1 == [ fr EXCEPT !.FinalLabels   = Append0(@, 0, o.TLabels[0]),
                          !.FinalCenters  = Append0(@, 0, o.TCenters[0]),
                          !.FinalOutlines = Append0(@, 0, o.TOutlines[0]) ]
    IN  IF o.TLabels[0] = << >>
        THEN [ o |-> o, fr |-> [ f1 EXCEPT !.pc = "ValueError" ] ]
        ELSE CellTrackingNext(
                 [ o EXCEPT !.label_correspondance[0] =
                     [ k \in DOMAIN o.TLabels[0] |-> CorrespondanceAtZero(o.TLabels[0][k]) ] ],
                 [ f1 EXCEPT !.labmax = SeqMax(o.TLabels[0]) ])

(***************************************************************************)
(* Lines 1365-1409: the iteration t > 0.  np.argmin raises ValueError on   *)
(* an axis of length 0 (lines 1386-1387); np.array(correspondance)[:,1]    *)
(* raises IndexError when correspondance is empty (line 1403), which is    *)
(* evaluated for the first future cell.                                    *)
(***************************************************************************)
CellTrackingLater(o, fr) ==
    LET t  == fr.t
        f1 == [ fr EXCEPT !.FinalLabels   = Append0(@, t, << >>),
                          !.FinalCenters  = Append0(@, t, << >>),
                          !.FinalOutlines = Append0(@, t, << >>) ]
    IN  IF Len(fr.FinalLabels[t - 1]) = 0 \/ Len(o.TLabels[t]) = 0
        THEN [ o |-> o, fr |-> [ f1 EXCEPT !.pc = "ValueError" ] ]
        ELSE
        LET D       == Dists(fr, o, t)
            corr    == correspondance(D)
            labmax  == Max({ SeqMax(fr.FinalLabels[t - 1]), fr.labmax })
            matched == { corr[k][2] : k \in DOMAIN corr }
            rest    == SelectSeq([ j \in DOMAIN o.TLabels[t] |-> j ],
                                 LAMBDA j : j \notin matched)
            lc      == [ k \in DOMAIN corr |->
                           << o.TLabels[t][corr[k][2]], fr.FinalLabels[t - 1][corr[k][1]] >> ]
            fl      == [ k \in DOMAIN corr |-> fr.FinalLabels[t - 1][corr[k][1]] ]
            fc      == [ k \in DOMAIN corr |-> o.TCenters[t][corr[k][2]] ]
            fo      == [ k \in DOMAIN corr |-> o.TOutlines[t][corr[k][2]] ]
        IN  IF corr = << >>
            THEN [ o  |-> o,
                   fr |-> [ f1 EXCEPT !.labmax = labmax, !.pc = "IndexError" ] ]
            ELSE CellTrackingNext(
                     [ o EXCEPT !.label_correspondance[t] =
                         lc \o [ k \in DOMAIN rest |-> << o.TLabels[t][rest[k]], labmax + k >> ] ],
                     [ fr EXCEPT
                         !.FinalLabels   = Append0(@, t, fl \o [ k \in DOMAIN rest |-> labmax + k ]),
                         !.FinalCenters  = Append0(@, t,
                                             fc \o [ k \in DOMAIN rest |-> o.TCenters[t][rest[k]] ]),
                         !.FinalOutlines = Append0(@, t,
                                             fo \o [ k \in DOMAIN rest |-> o.TOutlines[t][rest[k]] ]),
                         !.labmax        = labmax + Len(rest) ])

\* one iteration of the loop of line 1356
CellTrackingIter(o, fr) ==
    IF fr.t = 0 THEN CellTrackingFirst(o, fr) ELSE CellTrackingLater(o, fr)

RECURSIVE CellTrackingLoop(_)
CellTrackingLoop(r) ==
    IF r.fr.pc = "loop" THEN CellTrackingLoop(CellTrackingIter(r.o, r.fr)) ELSE r

\* cell_tracking, lines 1348-1414
cell_tracking(o) == CellTrackingLoop([ o |-> extract_labels(o), fr |-> CellTrackingEnter ])

\* CellPickerCT_del, lines 1683-1706: the [lab, z] pairs of the picked labels
RECURSIVE ListOfCells(_, _)
ListOfCells(c, labs) ==
    IF labs = << >> THEN << >>
    ELSE LET zs == c.Zlabel_z[IndexOf(c.Zlabel_l, Head(labs))]
         IN  [ n \in DOMAIN zs |-> << Head(labs), zs[n] >> ] \o ListOfCells(c, Tail(labs))

\* lines 1422-1428 with a pair whose label is not on the plane passed over
DeleteCellSkip(c, lab, z) ==
    IF lab \notin Range(c.labels[z]) THEN c
    ELSE LET id_l == IndexOf(c.labels[z], lab)
         IN  [ c EXCEPT !.labels[z]   = Pop(@, id_l),
                        !.Outlines[z] = Pop(@, id_l),
                        !.Masks[z]    = Pop(@, id_l),
                        !.centersi[z] = Pop(@, id_l),
                        !.centersj[z] = Pop(@, id_l) ]

\* lines 1422-1428: np.where(...)[0][0] raises when the label is not on the plane
DeleteCellPop(c, lab, z) ==
    IF lab \notin Range(c.labels[z]) THEN [ c EXCEPT !.err = "IndexError" ]
    ELSE LET id_l == IndexOf(c.labels[z], lab)
         IN  [ c EXCEPT !.labels[z]   = Pop(@, id_l),
                        !.Outlines[z] = Pop(@, id_l),
                        !.Masks[z]    = Pop(@, id_l),
                        !.centersi[z] = Pop(@, id_l),
                        !.centersj[z] = Pop(@, id_l) ]

RECURSIVE DeleteCellPops(_, _)
DeleteCellPops(c, cells) ==
    IF cells = << >> \/ ~IsOk(c) THEN c
    ELSE DeleteCellPops(DeleteCellPop(c, Head(cells)[1], Head(cells)[2]), Tail(cells))

\* CellTracking.delete_cell, lines 1419-1431, with PA.list_of_cells = cells
delete_cell(o, fr, cells) ==
    LET track(o2) == IF IsOk(o2.CSt[PA_t]) THEN cell_tracking(o2) ELSE [ o |-> o2, fr |-> fr ]
        relabel(c1) ==
            track([ o EXCEPT !.CSt[PA_t] = IF IsOk(c1) THEN UpdateLabels(c1) ELSE c1 ])
    IN  relabel(DeleteCellPops([ o.CSt[PA_t] EXCEPT !.err = "ok" ], cells))

\* what plot_axis holds before its first cell
NoPlot == [ t |-> 0, z |-> 0, Tlabs |-> << >>, exc |-> "ok" ]

\* lines 1545-1546: np.where(...)[0][0] raises when no entry has the label
Lookup(table, label) ==
    IF \A k \in DOMAIN table : table[k][1] # label
    THEN [ Tlab |-> NoLabel, exc |-> "IndexError" ]
    ELSE [ Tlab |-> table[IndexOf([ k \in DOMAIN table |-> table[k][1] ], label)][2],
           exc  |-> "ok" ]

\* lines 1542-1547: the cells of plane z from cell on, r being drawn so far
RECURSIVE PlotAxisCells(_, _, _, _)
PlotAxisCells(CS, table, cell, r) ==
    IF cell > Len(CS.Outlines[r.z]) THEN r
    ELSE IF cell > Len(CS.labels[r.z]) THEN [ r EXCEPT !.exc = "IndexError" ]
    ELSE LET found(e) == IF e.exc # "ok" THEN [ r EXCEPT !.exc = e.exc ]
                         ELSE PlotAxisCells(CS, table, cell + 1,
                                            [ r EXCEPT !.Tlabs = Append(@, e.Tlab) ])
         IN  found(Lookup(table, CS.labels[r.z][cell]))

\* CellTracking.plot_axis, lines 1537-1553: the global labels it colours by
plot_axis(o, t, z) ==
    PlotAxisCells(o.CSt[t], o.label_correspondance[t], 1,
                  [ t |-> t, z |-> z, Tlabs |-> << >>, exc |-> "ok" ])

\* the planes shown: the first planes a column of CellsCT can begin on
PlanesPlotted == { 0, z_gate + 1 }

(***************************************************************************)
(* CellTracking.__call__ on an acquisition of MaxTimes time points and the *)
(* delete edits after it.  At each time point the raw segmentation, the    *)
(* output of the external model inside CS(), is an input of the step: it   *)
(* finds at most MaxColumns cells, each on ColumnPlanes adjacent planes from *)
(* plane 0 or from the first plane beyond the z gate of plane 0, centred   *)
(* on one of PointsCT with intensity sum 1.                                *)
(***************************************************************************)
\* adjacent points are 20 pixels apart (5.5 units), the outer two 40 (11.1)
PointsCT == { << 0, 0 >>, << 12, 16 >>, << 24, 32 >> }

ColumnsCT == [ p : PointsCT, z0 : { 0, z_gate + 1 } ]

\* the cells of one time point, in the order of their centres
CellsCT ==
    { s \in InjSeqs(ColumnsCT, MaxColumns) :
        \A m, n \in DOMAIN s : m < n => s[m].p[1] < s[n].p[1] }

\* lines 79-124: Outlines and Masks as the raw segmentation leaves them
RawVolumeCT(cols) ==
    LET at(z) == SelectSeq(cols, LAMBDA c : z >= c.z0 /\ z < c.z0 + ColumnPlanes)
        none  == [ z \in 0..(ZLabelRange - 1) |-> << >> ]
    IN  [ slices   |-> ZLabelRange,
          Outlines |-> [ z \in 0..(ZLabelRange - 1) |-> [ k \in DOMAIN at(z) |-> << z, k >> ] ],
          Masks    |-> [ z \in 0..(ZLabelRange - 1) |->
                           [ k \in DOMAIN at(z) |-> MaskAt(at(z)[k].p, 1) ] ],
          centersi |-> none,
          centersj |-> none,
          labels   |-> none,
          Zlabel_l |-> << >>,
          Zlabel_z |-> << >>,
          labels_centers    |-> << >>,
          centers_positions |-> << >>,
          centers_weight    |-> << >>,
          centers_outlines  |-> << >>,
          err |-> "ok" ]

\* CS() of lines 1326-1333 on each raw segmentation of CellsCT
SegmentedCT == [ cols \in CellsCT |-> Segment(RawVolumeCT(cols)) ]

InitCT ==
    /\ ct = [ times |-> MaxTimes,
              CSt |-> << >>, TLabels |-> << >>, TCenters |-> << >>, TOutlines |-> << >>,
              label_correspondance |-> << >>,
              FinalLabels |-> << >>, FinalCenters |-> << >>, FinalOulines |-> << >>,
              pc |-> "cell_segmentation", t |-> 0, edits |-> 0,
              list_of_cells |-> << >> ]
    /\ trk = [ CellTrackingEnter EXCEPT !.pc = "idle" ]
    /\ vol = Idle
    /\ al = Idle
    /\ cs = Idle
    /\ stage = Idle
    /\ arg = Idle
    /\ ret = NoPlot

\* cell_segmentation, lines 1313-1335: one iteration of the loop over the times
CellSegmentationStep ==
    /\ ct.pc = "cell_segmentation"
    /\ \E cols \in CellsCT :
       LET stored(CS) ==
               [ ct EXCEPT !.CSt = Append0(@, ct.t, CS),
                           !.t   = @ + 1,
                           !.pc  = IF ~IsOk(CS) THEN "raised"
                                   ELSE IF ct.t + 1 < ct.times THEN "cell_segmentation"
                                   ELSE "cell_tracking" ]
       IN  ct' = stored(SegmentedCT[cols])
    /\ UNCHANGED << vol, al, cs, stage, trk, arg, ret >>

\* cell_tracking in __call__, line 1295: one iteration of its loop over the times
CellTrackingStep ==
    /\ ct.pc = "cell_tracking"
    /\ \E r \in { IF trk.pc = "idle"
                   THEN CellTrackingIter(extract_labels(ct), CellTrackingEnter)
                   ELSE CellTrackingIter(ct, trk) } :
           /\ trk' = r.fr
           /\ ct' = [ r.o EXCEPT !.pc = CASE r.fr.pc = "loop" -> "cell_tracking"
                                          [] r.fr.pc = "done" -> "ui"
                                          [] OTHER            -> "raised" ]
    /\ UNCHANGED << vol, al, cs, stage, arg, ret >>

\* the Enter key in delete mode, lines 1596-1601, after picks of the labels
\* labs: replot_tracking raises at line 1522 (a CellTracking has no ax), so
\* line 1601 is not reached and the selection stays
DeleteCell ==
    /\ ct.pc = "ui"
    /\ ct.edits < MaxEdits
    /\ ct.list_of_cells = << >>
    /\ \E labs \in InjSeqs(Range(ct.CSt[PA_t].Zlabel_l), MaxColumns) :
         /\ labs # << >>
         /\ \E cells \in { ListOfCells(ct.CSt[PA_t], labs) } :
              \E r \in { delete_cell(ct, trk, cells) } :
                /\ ct' = [ r.o EXCEPT !.edits = @ + 1, !.list_of_cells = cells ]
                /\ trk' = r.fr
    /\ ret' = NoPlot
    /\ UNCHANGED << vol, al, cs, stage, arg >>

\* the Enter key again: current_state is still "del" (lines 1603-1608 were
\* not reached either) and delete_cell runs on the selection that stayed
EnterAgain ==
    /\ ct.pc = "ui"
    /\ ct.edits < MaxEdits
    /\ ct.list_of_cells # << >>
    /\ \E r \in { delete_cell(ct, trk, ct.list_of_cells) } :
         /\ ct' = [ r.o EXCEPT !.edits = @ + 1 ]
         /\ trk' = r.fr
    /\ ret' = NoPlot
    /\ UNCHANGED << vol, al, cs, stage, arg >>

\* plot_axis(CSt[t], ax, img, z, t) on the object as tracking has left it
PlotAxis ==
    /\ ct.pc \in { "ui", "raised" }
    /\ trk.pc # "idle"
    /\ \E t \in DOMAIN ct.CSt, z \in PlanesPlotted :
         /\ IsOk(ct.CSt[t])
         /\ ret' = plot_axis(ct, t, z)
    /\ UNCHANGED << vol, al, cs, stage, ct, trk, arg >>

NextCT == CellSegmentationStep \/ CellTrackingStep \/ DeleteCell \/ EnterAgain \/ PlotAxis

SpecCT == InitCT /\ [][NextCT]_vars

(***************************************************************************)
(* The tracking editor: CellTracking.__call__ on an acquisition of         *)
(* MaxTimesED time points, then plot_tracking and the handlers of the      *)
(* window it opens (PlotActionCT, CellPickerCT_del, CellPickerCT_com, the  *)
(* time slider) and undo_corrections.  The object has the fields of the    *)
(* record of SpecCT but for the selection, and                             *)
(*   cells_to_combine   the selection of the combine picker                *)
(*   alias              which of FinalLabels[0], TLabels[0] and            *)
(*                      CSt[0].labels_centers are one list object: "all"   *)
(*                      (lines 1343 and 1360), "TL_CS" (line 1343 only) or *)
(*                      "none" (the deep copies of lines 1299-1306)        *)
(*   copyCT             the attributes undo_corrections reads from the     *)
(*                      deep copy of line 1296                             *)
(* The window PACT is a record                                             *)
(*   t, cst, live, CS, list_of_cells, current_state, picking, window       *)
(* PACT.CS is a reference: it is the object CSt[cst] while live, and the   *)
(* volume CS, which no list of the tracker holds any more, after           *)
(* undo_corrections has replaced CSt.  picking tells whether the picker    *)
(* of the mode is connected, window counts the windows opened so far.      *)
(* replot_tracking raises (line 1503 in PlotActionCT.__init__: PACT is     *)
(* assigned after the constructor returns; line 1522 afterwards: a         *)
(* CellTracking has no ax), so a handler ends at its first call of         *)
(* visualization or replot_tracking; the handlers are followed up to that  *)
(* call.  A cell of an acquisition is on ColumnPlanes or ColumnPlanes + 1  *)
(* planes from plane 0.  vol keeps what __call__ left in the attributes of *)
(* Saved when it returned.                                                 *)
(***************************************************************************)
PointsED == { << 0, 0 >>, << 12, 16 >> }

\* the second point can hold the longer cell
ColumnsED ==
    { c \in [ p : PointsED, n : { ColumnPlanes, ColumnPlanes + 1 } ] :
        c.n > ColumnPlanes => c.p = << 12, 16 >> }

\* the cells of one time point, in the order of their centres
CellsED ==
    { s \in InjSeqs(ColumnsED, MaxColumns) :
        \A m, n \in DOMAIN s : m < n => s[m].p[1] < s[n].p[1] }

\* lines 79-124: Outlines and Masks as the raw segmentation leaves them
RawVolumeED(cols) ==
    LET at(z) == SelectSeq(cols, LAMBDA c : z < c.n)
        none  == [ z \in 0..(ZLabelRange - 1) |-> << >> ]
    IN  [ slices   |-> ZLabelRange,
          Outlines |-> [ z \in 0..(ZLabelRange - 1) |-> [ k \in DOMAIN at(z) |-> << z, k >> ] ],
          Masks    |-> [ z \in 0..(ZLabelRange - 1) |->
                           [ k \in DOMAIN at(z) |-> MaskAt(at(z)[k].p, 1) ] ],
          centersi |-> none,
          centersj |-> none,
          labels   |-> none,
          Zlabel_l |-> << >>,
          Zlabel_z |-> << >>,
          labels_centers    |-> << >>,
          centers_positions |-> << >>,
          centers_weight    |-> << >>,
          centers_outlines  |-> << >>,
          err |-> "ok" ]

\* CS() of lines 1326-1333 on each raw segmentation of CellsED
SegmentedED == [ cols \in CellsED |-> Segment(RawVolumeED(cols)) ]

\* the attributes of the deep copy that undo_corrections reads, lines 1299-1306
Saved(o) ==
    [ TLabels |-> o.TLabels, TCenters |-> o.TCenters, TOutlines |-> o.TOutlines,
      CSt |-> o.CSt,
      FinalLabels |-> o.FinalLabels, FinalCenters |-> o.FinalCenters,
      FinalOulines |-> o.FinalOulines,
      label_correspondance |-> o.label_correspondance ]

\* CellTracking.__init__, lines 1265-1291
ConstructedED ==
    [ times |-> MaxTimesED,
      CSt |-> << >>, TLabels |-> << >>, TCenters |-> << >>, TOutlines |-> << >>,
      label_correspondance |-> << >>,
      FinalLabels |-> << >>, FinalCenters |-> << >>, FinalOulines |-> << >>,
      pc |-> "constructed", t |-> 0, edits |-> 0,
      cells_to_combine |-> << >>, alias |-> "none", copyCT |-> << >> ]

\* PlotActionCT.__init__, lines 1557-1570; closed: before plot_tracking
PlotActionCT(state, n) ==
    [ t |-> PA_t, cst |-> PA_t, live |-> TRUE, CS |-> << >>,
      list_of_cells |-> << >>, current_state |-> state, picking |-> FALSE,
      window |-> n ]

\* what the last handler or method was and what it raised
Returned(op, exc) == [ op |-> op, exc |-> exc ]

InitED ==
    /\ ct = ConstructedED
    /\ trk = [ CellTrackingEnter EXCEPT !.pc = "idle" ]
    /\ arg = PlotActionCT("closed", 0)
    /\ ret = Returned("__init__", "ok")
    /\ vol = Idle
    /\ al = Idle
    /\ cs = Idle
    /\ stage = Idle

\* __call__, lines 1293-1296, on the raw segmentations cols of the time points
Call(o, cols) ==
    LET called(r) ==
            IF r.fr.pc = "done"
            THEN [ o |-> [ r.o EXCEPT !.pc = "ui", !.alias = "all", !.copyCT = Saved(r.o) ],
                   fr |-> r.fr ]
            ELSE [ o |-> [ r.o EXCEPT !.pc = "raised" ], fr |-> r.fr ]
    IN  called(cell_tracking([ o EXCEPT !.CSt = [ t \in DOMAIN cols |-> SegmentedED[cols[t]] ] ]))

CallED ==
    /\ ct.pc = "constructed"
    /\ \E cols \in [ 0..(MaxTimesED - 1) -> CellsED ] :
         \E r \in { Call(ct, cols) } :
           /\ ct' = r.o
           /\ trk' = r.fr
           /\ ret' = Returned("__call__", IF r.fr.pc = "done" THEN "ok" ELSE r.fr.pc)
           /\ vol' = IF r.fr.pc = "done" THEN Saved(r.o) ELSE vol
    /\ UNCHANGED << al, cs, stage, arg >>

\* plot_tracking, lines 1449-1453: a new window on the object
PlotTracking ==
    /\ ct.pc = "ui"
    /\ arg.window < MaxWindows
    /\ arg' = PlotActionCT("None", arg.window + 1)
    /\ ret' = Returned("plot_tracking", "AttributeError")
    /\ UNCHANGED << vol, al, cs, stage, ct, trk >>

\* the volume PACT.CS refers to
PACS(o, PA) == IF PA.live THEN o.CSt[PA.cst] ELSE PA.CS

\* update_slider, lines 1496-1499: the slider runs over 0..times (line 1488)
\* and calls back when its value changes; line 1498 raises beyond the last
\* time point, line 1499 (no round) otherwise
update_slider(PA, t) ==
    IF t >= MaxTimesED THEN [ PA EXCEPT !.t = t ]
    ELSE [ PA EXCEPT !.t = t, !.cst = t, !.live = TRUE, !.CS = << >> ]

UpdateSlider ==
    /\ ct.pc = "ui"
    /\ arg.current_state # "closed"
    /\ \E t \in 0..MaxTimesED :
         /\ t # arg.t
         /\ arg' = update_slider(arg, t)
         /\ ret' = Returned("update_slider", IF t >= MaxTimesED THEN "IndexError" ELSE "TypeError")
    /\ UNCHANGED << vol, al, cs, stage, ct, trk >>

\* the keys d and c, lines 1580-1586 and 1634-1642
KeyMode ==
    /\ ct.pc = "ui"
    /\ arg.current_state = "None"
    /\ \E mode \in { "del", "com" } :
         /\ arg' = [ arg EXCEPT !.current_state = mode, !.picking = TRUE ]
         /\ ret' = Returned(mode, "ok")
    /\ UNCHANGED << vol, al, cs, stage, ct, trk >>

\* the planes a panel with a cell can show
PlanesED == 0..ColumnPlanes

\* CellPickerCT_del, lines 1683-1706: a click in a mask of label lab
CellPickerCT_del(CS, list, lab) ==
    IF lab \notin Range(CS.Zlabel_l) THEN [ list |-> list, exc |-> "IndexError" ]
    ELSE LET toggle(zs) ==
                 IF \E jj \in DOMAIN list : list[jj][1] = lab /\ list[jj][2] \in Range(zs)
                 THEN SelectSeq(list, LAMBDA c : ~(c[1] = lab /\ c[2] \in Range(zs)))
                 ELSE list \o [ n \in DOMAIN zs |-> << lab, zs[n] >> ]
         IN  [ list |-> toggle(CS.Zlabel_z[IndexOf(CS.Zlabel_l, lab)]), exc |-> "ok" ]

PickDelete ==
    /\ ct.pc = "ui"
    /\ arg.current_state = "del"
    /\ arg.picking
    /\ \E z \in PlanesED : \E i \in DOMAIN PACS(ct, arg).labels[z] :
         \E r \in { CellPickerCT_del(PACS(ct, arg), arg.list_of_cells, PACS(ct, arg).labels[z][i]) } :
           /\ arg' = [ arg EXCEPT !.list_of_cells = r.list ]
           /\ ret' = Returned("CellPickerCT_del", r.exc)
    /\ UNCHANGED << vol, al, cs, stage, ct, trk >>

\* list.remove, line 1773
Remove(list, cell) ==
    IF cell \notin Range(list) THEN [ list |-> list, exc |-> "ValueError" ]
    ELSE [ list |-> Pop(list, IndexOf(list, cell)), exc |-> "ok" ]

\* CellPickerCT_com, lines 1763-1773: cell = [Tlab, t, idcorr]
CellPickerCT_com(list, cell) ==
    IF list = << >> THEN [ list |-> << cell >>, exc |-> "ok" ]
    ELSE IF cell[1] \notin { list[k][1] : k \in DOMAIN list }
    THEN IF Len(list) = 2 THEN [ list |-> list, exc |-> "ok" ]
         ELSE IF cell[2] \notin { list[k][2] : k \in DOMAIN list }
         THEN [ list |-> Append(list, cell), exc |-> "ok" ]
         ELSE [ list |-> list, exc |-> "ok" ]
    ELSE Remove(list, cell)

\* lines 1758-1760: the cell of a click in a mask of label lab at time t;
\* label_correspondance[t] raises beyond the last time point, np.where(...)[0][0]
\* when no entry has the label
PickedCell(o, t, lab) ==
    IF t \notin DOMAIN o.label_correspondance THEN [ cell |-> << >>, exc |-> "IndexError" ]
    ELSE IF \A k \in DOMAIN o.label_correspondance[t] : o.label_correspondance[t][k][1] # lab
    THEN [ cell |-> << >>, exc |-> "IndexError" ]
    ELSE LET found(idcorr) ==
                 [ cell |-> << o.label_correspondance[t][idcorr][2], t, idcorr >>, exc |-> "ok" ]
         IN  found(IndexOf([ k \in DOMAIN o.label_correspondance[t] |->
                                o.label_correspondance[t][k][1] ], lab))

PickCombine ==
    /\ ct.pc = "ui"
    /\ arg.current_state = "com"
    /\ arg.picking
    /\ \E z \in PlanesED : \E i \in DOMAIN PACS(ct, arg).labels[z] :
         \E p \in { PickedCell(ct, arg.t, PACS(ct, arg).labels[z][i]) } :
           \E r \in { IF p.exc = "ok" THEN CellPickerCT_com(ct.cells_to_combine, p.cell)
                      ELSE [ list |-> ct.cells_to_combine, exc |-> p.exc ] } :
             /\ ct' = [ ct EXCEPT !.cells_to_combine = r.list ]
             /\ ret' = Returned("CellPickerCT_com", r.exc)
    /\ UNCHANGED << vol, al, cs, stage, trk, arg >>

\* lines 1422-1430 on one volume: the pops, then update_labels when none raised
EditedVolume(CS, cells) ==
    LET relabel(c1) == IF IsOk(c1) THEN UpdateLabels(c1) ELSE c1
    IN  relabel(DeleteCellPops([ CS EXCEPT !.err = "ok" ], cells))

\* CellTracking.delete_cell, lines 1419-1431, on the volume PA.CS refers to
\* with cell_tracking (line 1431) when no line before it raised
DeleteCellED(o, fr, PA) ==
    LET tracked(r) ==
            [ o  |-> [ r.o EXCEPT !.alias =
                         IF r.fr.pc = "done" \/ (o.alias = "all" /\ ~(PA.live /\ PA.cst = 0))
                         THEN "all" ELSE "TL_CS" ],
              fr |-> r.fr ]
        stored(c2) == IF PA.live THEN [ o EXCEPT !.CSt[PA.cst] = c2 ] ELSE o
        track(c2) ==
            IF IsOk(c2) THEN tracked(cell_tracking(stored(c2)))
            ELSE [ o |-> stored(c2), fr |-> fr ]
        after(c2, r) ==
            [ o  |-> r.o,
              fr |-> r.fr,
              PA |-> IF PA.live THEN PA ELSE [ PA EXCEPT !.CS = c2 ],
              exc |-> IF ~IsOk(c2) THEN c2.err
                      ELSE IF r.fr.pc = "done" THEN "AttributeError" ELSE r.fr.pc ]
        edited(c2) == after(c2, track(c2))
    IN  edited(EditedVolume(PACS(o, PA), PA.list_of_cells))

\* the Enter key in delete mode, lines 1596-1600: replot_tracking raises at
\* line 1522 when delete_cell has not raised before, so line 1601 and lines
\* 1606-1611 are not reached: the selection and the mode stay
EnterDelete ==
    /\ ct.pc = "ui"
    /\ arg.current_state = "del"
    /\ ct.edits < MaxEdits
    /\ \E r \in { DeleteCellED(ct, trk, arg) } :
         /\ ct' = [ r.o EXCEPT !.edits = @ + 1 ]
         /\ trk' = r.fr
         /\ arg' = [ r.PA EXCEPT !.picking = FALSE ]
         /\ ret' = Returned("delete_cell", r.exc)
    /\ UNCHANGED << vol, al, cs, stage >>

\* lines 1445-1446: the write reaches TLabels[0] and CSt[0].labels_centers
\* when the three are one list object (alias "all")
SetFinalLabel(o, T, idd, lab) ==
    IF T = 0 /\ o.alias = "all"
    THEN [ o EXCEPT !.FinalLabels[T][idd] = lab,
                    !.TLabels[T][idd] = lab,
                    !.CSt[T].labels_centers[idd] = lab ]
    ELSE [ o EXCEPT !.FinalLabels[T][idd] = lab ]

\* line 1447: the global id of entry ID of the table of time T
SetCorrespondance(o, T, ID, lab) ==
    IF ID \notin DOMAIN o.label_correspondance[T] THEN [ o |-> o, exc |-> "IndexError" ]
    ELSE [ o |-> [ o EXCEPT !.label_correspondance[T][ID] = << @[1], lab >> ], exc |-> "ok" ]

\* CellTracking.combine_cells, lines 1433-1447
CT_combine_cells(o) ==
    LET cells == [ k \in DOMAIN o.cells_to_combine |-> o.cells_to_combine[k][1] ]
        relabel(hi, maxlab, minlab) ==
            IF maxlab \notin Range(o.FinalLabels[hi[2]]) THEN [ o |-> o, exc |-> "IndexError" ]
            ELSE SetCorrespondance(
                     SetFinalLabel(o, hi[2], IndexOf(o.FinalLabels[hi[2]], maxlab), minlab),
                     hi[2], hi[3], minlab)
    IN  IF o.cells_to_combine = << >> THEN [ o |-> o, exc |-> "ok" ]
        ELSE relabel(o.cells_to_combine[IndexOf(cells, SeqMax(cells))],
                     SeqMax(cells), SeqMin(cells))

\* the Enter key in combine mode, lines 1602-1606: line 1605 when
\* combine_cells has not raised; visualization raises at line 1522
EnterCombine ==
    /\ ct.pc = "ui"
    /\ arg.current_state = "com"
    /\ ct.edits < MaxEdits
    /\ \E r \in { CT_combine_cells(ct) } :
         /\ ct' = [ r.o EXCEPT !.edits = @ + 1,
                               !.cells_to_combine = IF r.exc = "ok" THEN << >> ELSE @ ]
         /\ ret' = Returned("combine_cells", IF r.exc = "ok" THEN "AttributeError" ELSE r.exc)
    /\ arg' = [ arg EXCEPT !.picking = FALSE ]
    /\ UNCHANGED << vol, al, cs, stage, trk >>

\* lines 1299-1306 with the volumes left as they are
undo_corrections_keep(o) ==
    [ o EXCEPT !.TLabels   = o.copyCT.TLabels,
               !.TCenters  = o.copyCT.TCenters,
               !.TOutlines = o.copyCT.TOutlines,
               !.FinalLabels  = o.copyCT.FinalLabels,
               !.FinalCenters = o.copyCT.FinalCenters,
               !.FinalOulines = o.copyCT.FinalOulines,
               !.label_correspondance = o.copyCT.label_correspondance,
               !.alias = "none" ]

\* undo_corrections, lines 1298-1306: eight deep copies
undo_corrections(o) ==
    [ o EXCEPT !.TLabels   = o.copyCT.TLabels,
               !.TCenters  = o.copyCT.TCenters,
               !.TOutlines = o.copyCT.TOutlines,
               !.CSt       = o.copyCT.CSt,
               !.FinalLabels  = o.copyCT.FinalLabels,
               !.FinalCenters = o.copyCT.FinalCenters,
               !.FinalOulines = o.copyCT.FinalOulines,
               !.label_correspondance = o.copyCT.label_correspondance,
               !.alias = "none" ]

\* undo_corrections called on the object; a window that is open keeps the
\* volume it referred to
UndoCorrections ==
    /\ ct.pc = "ui"
    /\ ct' = undo_corrections(ct)
    /\ arg' = IF arg.live /\ arg.current_state # "closed"
            THEN [ arg EXCEPT !.live = FALSE, !.CS = ct.CSt[arg.cst] ] ELSE arg
    /\ ret' = Returned("undo_corrections", "ok")
    /\ UNCHANGED << vol, al, cs, stage, trk >>

NextED ==
    \/ CallED
    \/ PlotTracking
    \/ UpdateSlider
    \/ KeyMode
    \/ PickDelete
    \/ PickCombine
    \/ EnterDelete
    \/ EnterCombine
    \/ UndoCorrections

SpecED == InitED /\ [][NextED]_vars

(***************************************************************************)
(* _compute_overlap taken alone: two masks over a row of MaxPixels pixels, *)
(* the empty one included, in either mode; the method is called on the     *)
(* pair and then on the pair the other way round.                          *)
(***************************************************************************)
PixelsOV == { << x, 0 >> : x \in 0..(MaxPixels - 1) }

MasksOV == [ px : SUBSET PixelsOV ]

InitOV ==
    /\ arg \in [ relative : BOOLEAN, m1 : MasksOV, m2 : MasksOV ]
    /\ ret = << >>
    /\ vol = Idle
    /\ al = Idle
    /\ cs = Idle
    /\ stage = Idle
    /\ ct = Idle
    /\ trk = Idle

\* one call, lines 303-317; the next call takes the masks in the other order
OverlapCall ==
    /\ Len(ret) < 2
    /\ ret' = Append(ret, compute_overlap(arg.relative, arg.m1, arg.m2))
    /\ arg' = [ arg EXCEPT !.m1 = arg.m2, !.m2 = arg.m1 ]
    /\ UNCHANGED << vol, al, cs, stage, ct, trk >>

NextOV == OverlapCall

SpecOV == InitOV /\ [][NextOV]_vars

(***************************************************************************)
(* _compute_overlap_measure on one label-track taken alone, lines 319-352. *)
(* arg is the track and the configuration: the masks of its planes, one    *)
(* per plane, 1 to MaxTrack of them and none empty, with self._fullmat and *)
(* self._relative; the track lies on the planes 0, 1, ...  ret is the      *)
(* frame: pc, then Zoverlap and at the end conv, the entries of            *)
(* self._Zoverlaps and self._Zoverlaps_conv for the track.                 *)
(***************************************************************************)
MasksOM == { m \in MasksOV : m.px # {} }

TracksOM == UNION { [ 1..n -> MasksOM ] : n \in 1..MaxTrack }

InitOM ==
    /\ arg \in [ fullmat : BOOLEAN, relative : BOOLEAN, msks : TracksOM ]
    /\ ret = [ pc |-> "planes_overlap", Zoverlap |-> << >>, conv |-> << >> ]
    /\ vol = Idle
    /\ al = Idle
    /\ cs = Idle
    /\ stage = Idle
    /\ ct = Idle
    /\ trk = Idle

\* line 338: _compute_planes_overlap
PlanesOverlapStep ==
    /\ ret.pc = "planes_overlap"
    /\ ret' = [ ret EXCEPT !.pc = "measure",
                           !.Zoverlap = PlanesOverlap(arg.fullmat, arg.relative,
                                                      [ i \in DOMAIN arg.msks |-> i - 1 ],
                                                      arg.msks) ]
    /\ UNCHANGED << vol, al, cs, stage, ct, trk, arg >>

\* lines 339-352
OverlapMeasureStep ==
    /\ ret.pc = "measure"
    /\ ret' = [ ret EXCEPT !.pc = "done", !.conv = OverlapMeasure(ret.Zoverlap) ]
    /\ UNCHANGED << vol, al, cs, stage, ct, trk, arg >>

NextOM == PlanesOverlapStep \/ OverlapMeasureStep

SpecOM == InitOM /\ [][NextOM]_vars

(***************************************************************************)
(* _detect_cell_barriers on one label-track taken alone, lines 361-418.    *)
(* The evidence signal of the track (line 361) is the input: a sequence of *)
(* 5 to MaxSignal values of EvidenceValues; the depth threshold            *)
(* self._overlap_th is the constructor's default or 1/2.  ret is the frame *)
(* of the method:                                                          *)
(*   m       intensity, self._cellbarriers[-1] and keep_checking           *)
(*   passes  the passes of the while loop begun so far                     *)
(*   pc      "merge" in the while loop, "depth" after it, then "done" or   *)
(*           the name of the exception raised                              *)
(***************************************************************************)
EvidenceValues == { 2, 9, 10 }

SignalsDB ==
    UNION { [ 1..n -> { << v, 1 >> : v \in EvidenceValues } ] : n \in 5..MaxSignal }

ThresholdsDB == { overlap_gradient_th, << 1, 2 >> }

InitDB ==
    /\ arg \in [ intensity : SignalsDB, overlap_th : ThresholdsDB ]
    /\ ret = [ m |-> MergeEnter(arg.intensity), passes |-> 0, pc |-> "merge" ]
    /\ vol = Idle
    /\ al = Idle
    /\ cs = Idle
    /\ stage = Idle
    /\ ct = Idle
    /\ trk = Idle

\* lines 384-403: one pass of the while loop, and its test
MergePassStep ==
    /\ ret.pc = "merge"
    /\ \E m \in { MergePass(ret.m) } :
         ret' = [ m |-> m, passes |-> ret.passes + 1,
                  pc |-> IF m.keep_checking THEN "merge" ELSE "depth" ]
    /\ UNCHANGED << vol, al, cs, stage, ct, trk, arg >>

\* lines 405-418: the depth filter
DepthFilterStep ==
    /\ ret.pc = "depth"
    /\ \E r \in { DepthFilter(arg.overlap_th, Peaks(arg.intensity), ret.m) } :
         ret' = [ ret EXCEPT !.m.b = r.b, !.pc = IF r.err = "ok" THEN "done" ELSE r.err ]
    /\ UNCHANGED << vol, al, cs, stage, ct, trk, arg >>

NextDB == MergePassStep \/ DepthFilterStep

SpecDB == InitDB /\ [][NextDB]_vars

(***************************************************************************)
(* _cell_segmentation_outlines, lines 75-124, taken alone.  arg is what    *)
(* the external model and outlines_list return for the planes of the       *)
(* stack: on each plane up to MaxDetections outlines of OutlinesRS, a      *)
(* point being << x, y >>.  min_outline_length is the value CellTracking   *)
(* hands to the constructor.  A mask is held as the set of its points, an   *)
(* outline of the working list with the index src of the detection it came *)
(* from.  ret is                                                           *)
(* the frame of the method:                                                *)
(*   Outlines, Masks   self.Outlines, self.Masks                           *)
(*   outlines          the list outlines of the plane at hand              *)
(*   idxtoremove       the list idxtoremove of the plane at hand           *)
(*   pc                "scan", "pop", "keep" within a plane, then "done"   *)
(*                     or the name of the exception raised                 *)
(***************************************************************************)
min_outline_length == 200

\* np.rint((a + b)/2) of two integers, halves to the even neighbour
RintHalf(a, b) ==
    LET h == (a + b) \div 2
    IN  IF (a + b) % 2 = 0 \/ h % 2 = 0 THEN h ELSE h + 1

MidPoint(p, q) == << RintHalf(p[1], q[1]), RintHalf(p[2], q[2]) >>

\* line 496: ceil(log2(min_outline_length/len(outline))), -1 for any negative
RECURSIVE RoundsFrom(_, _)
RoundsFrom(n, r) ==
    IF n >= min_outline_length THEN r ELSE RoundsFrom(2 * n, r + 1)

Rounds(n) == IF n >= 2 * min_outline_length THEN -1 ELSE RoundsFrom(n, 0)

\* lines 500-511: one round, a point between every two neighbours and one
\* between the last and the first point in front
ResolutionRound(o) ==
    LET n == Len(o)
    IN  [ k \in 1..(2 * n) |->
            IF k = 1 THEN MidPoint(o[n], o[1])
            ELSE IF k % 2 = 0 THEN o[k \div 2]
            ELSE MidPoint(o[(k - 1) \div 2], o[(k + 1) \div 2]) ]

RECURSIVE ResolutionRounds(_, _)
ResolutionRounds(o, r) ==
    IF r = 0 THEN o ELSE ResolutionRounds(ResolutionRound(o), r - 1)

\* lines 495-513; with a negative number of rounds newoutline_new is unbound
increase_point_resolution(outline) ==
    IF Rounds(Len(outline)) < 0 THEN "UnboundLocalError"
    ELSE ResolutionRounds(outline, Rounds(Len(outline)))

\* lines 126-151: every row of the hull but the last one is filled from its
\* leftmost to its rightmost point; the last row is never flushed
points_within_hull(hull) ==
    LET ys     == { hull[k][2] : k \in DOMAIN hull }
        row(y) == { hull[k][1] : k \in { i \in DOMAIN hull : hull[i][2] = y } }
    IN  UNION { { << x, y >> : x \in Min(row(y))..Max(row(y) \cup { 0 }) } :
                y \in ys \ { Max(ys) } }

OutlinesRS ==
    { << << 0, 0 >>, << 2, 0 >> >>,
      << << 1, 1 >> >>,
      << << 0, 0 >>, << 2, 2 >> >>,
      << << 0, 0 >>, << 0, 1 >>, << 1, 1 >> >> }

PlanesRS == UNION { [ 1..n -> OutlinesRS ] : n \in 0..MaxDetections }

InitRS ==
    /\ arg \in [ 0..(SlicesRS - 1) -> PlanesRS ]
    /\ ret = [ Outlines |-> << >>, Masks |-> << >>, outlines |-> << >>,
               idxtoremove |-> << >>, pc |-> "scan" ]
    /\ vol = Idle
    /\ al = Idle
    /\ cs = Idle
    /\ stage = Idle
    /\ ct = Idle
    /\ trk = Idle

\* lines 110-117: the outline of detection cell and its mask ptsin are stored
ScanCell(f, cell, hull, ptsin) ==
    [ outlines    |-> Append(f.outlines, [ src |-> cell, pts |-> hull ]),
      idxtoremove |-> IF ptsin = {} THEN Append(f.idxtoremove, cell) ELSE f.idxtoremove,
      Masks       |-> IF ptsin = {} THEN f.Masks
                      ELSE Append(f.Masks, [ src |-> cell, px |-> ptsin ]) ]

\* lines 105-117: the detections of the plane from detection cell on
RECURSIVE ScanOutlines(_, _, _)
ScanOutlines(raw, cell, f) ==
    IF cell >= Len(raw) THEN f
    ELSE LET scan(hull) == ScanCell(f, cell, hull, points_within_hull(hull))
         IN  ScanOutlines(raw, cell + 1, scan(increase_point_resolution(raw[cell + 1])))

\* lines 88-117: the plane's detections are scanned
ScanPlane ==
    /\ ret.pc = "scan"
    /\ Len(ret.Outlines) < SlicesRS
    /\ \E f \in { ScanOutlines(arg[Len(ret.Outlines)], 0,
                      [ outlines |-> << >>, idxtoremove |-> << >>, Masks |-> << >> ]) } :
         ret' = [ ret EXCEPT !.Masks = Append(@, f.Masks),
                             !.outlines = f.outlines,
                             !.idxtoremove = f.idxtoremove,
                             !.pc = "pop" ]
    /\ UNCHANGED << vol, al, cs, stage, ct, trk, arg >>

\* outlines.pop(idrem) for the indices of idxtoremove in turn
RECURSIVE PopOutlines(_, _)
PopOutlines(outlines, idx) ==
    IF idx = << >> THEN [ outlines |-> outlines, err |-> "ok" ]
    ELSE IF Head(idx) >= Len(outlines) THEN [ outlines |-> outlines, err |-> "IndexError" ]
    ELSE PopOutlines(Pop(outlines, Head(idx) + 1), Tail(idx))

\* lines 120-121
RemoveOutlines ==
    /\ ret.pc = "pop"
    /\ \E o \in { PopOutlines(ret.outlines, ret.idxtoremove) } :
         ret' = IF o.err = "ok"
                THEN [ ret EXCEPT !.outlines = o.outlines, !.pc = "keep" ]
                ELSE [ ret EXCEPT !.outlines = o.outlines, !.pc = o.err ]
    /\ UNCHANGED << vol, al, cs, stage, ct, trk, arg >>

\* line 124, and the loop of line 85 goes on or ends
KeepOutlines ==
    /\ ret.pc = "keep"
    /\ ret' = [ ret EXCEPT !.Outlines = Append(@, ret.outlines),
                           !.outlines = << >>,
                           !.pc = IF Len(ret.Outlines) + 1 < SlicesRS THEN "scan" ELSE "done" ]
    /\ UNCHANGED << vol, al, cs, stage, ct, trk, arg >>

NextRS == ScanPlane \/ RemoveOutlines \/ KeepOutlines

SpecRS == InitRS /\ [][NextRS]_vars

(***************************************************************************)
(* The add mode of the segmentation editor: PlotActionCS (lines 814-1002), *)
(* SubplotPicker_add (1027-1061), LineBuilder (1180-1199) and add_cell,    *)
(* complete_add_cell and _sort_point_sequence of CellSegmentation.         *)
(* cs is the volume the editor works on.  arg is the editor:               *)
(*   layout           "single" when PA.ax is one axes, "grid" otherwise    *)
(*   current_state    PA.current_state, "None", "add" or "com"             *)
(*   current_subplot  PA.current_subplot: "None", "single" or "panel"      *)
(*   z, zs            PA.z, the plane of the selected panel or NoPlane;    *)
(*                    PA.zs, the plane a single axes shows                 *)
(*   picker           a SubplotPicker_add is connected to the canvas       *)
(*   patch            PA.patch is in the list ax_sel.patches               *)
(*   xs               the points of CS.linebuilder, as rounded by line 555 *)
(*   cid, line        the LineBuilder is connected; its line is on an axes *)
(*   adds             the times add mode has been entered                  *)
(*   list_of_cells    PA.list_of_cells, the selection of the combine mode  *)
(*   CP               a CellPicker_com is connected to the canvas          *)
(* ret is what the last handler did: exc the exception that ended it or    *)
(* "ok", stuck whether the walk of _sort_point_sequence ran and got stuck. *)
(* The user clicks points of PointsAC one after the other from left to     *)
(* right, beginning with any of them; the image                            *)
(* under a drawn mask has its weighted centroid at a point of CentresAC    *)
(* and the intensity sum 1.                                                *)
(***************************************************************************)
nearest_neighs == 7

\* PA.z = None
NoPlane == -1

PointsAC == { << p, p >> : p \in { 0, 1, 4, 10, 18, 23, 25, 60 } }

\* q is the point of PointsAC next to the right of p
NextPointAC(p, q) ==
    p[1] < q[1] /\ \A r \in PointsAC : ~ (p[1] < r[1] /\ r[1] < q[1])

CentresAC == { << 12, 18 >>, << 40, 40 >> }

PlanesAC == { 0, 1 }

VolumesAC ==
    { Segment(RawVolume([ slices |-> ZLabelRange, base |-> 0 ],
                        [ z \in 0..(MaxPlanesCS - 1) |-> pl ])) :
        pl \in { << >>, << MaskAt(<< 12, 16 >>, 1) >>,
                 << MaskAt(<< 12, 16 >>, 1), MaskAt(<< 24, 32 >>, 1) >> } }

NoLineBuilder == [ xs |-> << >>, cid |-> FALSE, line |-> FALSE ]

InitAC ==
    /\ cs \in VolumesAC
    /\ arg \in { [ layout |-> l, current_state |-> "None", current_subplot |-> "None",
                   z |-> IF l = "single" THEN z ELSE NoPlane, zs |-> z,
                   picker |-> FALSE, patch |-> FALSE, lb |-> NoLineBuilder, adds |-> 0,
                   list_of_cells |-> << >>, CP |-> FALSE ] :
                 l \in { "single", "grid" }, z \in PlanesAC }
    /\ ret = [ exc |-> "ok", stuck |-> FALSE ]
    /\ vol = Idle
    /\ al = Idle
    /\ stage = Idle
    /\ ct = Idle
    /\ trk = Idle

\* lines 547-549 and 1181-1185: a new line and a LineBuilder connected to it
add_cell(PA) == [ PA EXCEPT !.lb = [ xs |-> << >>, cid |-> TRUE, line |-> TRUE ] ]

\* add_cells, lines 954-1002
add_cells(PA) ==
    IF PA.layout = "grid"
    THEN IF PA.current_subplot = "None"
         THEN [ PA EXCEPT !.picker = TRUE ]
         ELSE [ PA EXCEPT !.patch = TRUE ]
    ELSE add_cell([ PA EXCEPT !.current_subplot = "single" ])

\* lines 862-867 and 880: the key a while no action is going on
KeyAdd ==
    /\ arg.current_state = "None"
    /\ arg.adds < MaxAdds
    /\ arg' = add_cells([ arg EXCEPT !.current_state = "add", !.adds = @ + 1 ])
    /\ ret' = [ exc |-> "ok", stuck |-> FALSE ]
    /\ UNCHANGED << vol, al, cs, stage, ct, trk >>

\* SubplotPicker_add.__call__, lines 1042-1061: a double left-click on a panel
SelectPanel ==
    /\ arg.picker
    /\ \E z \in PlanesAC :
         arg' = add_cell(add_cells([ arg EXCEPT !.current_subplot = "panel", !.z = z,
                                                !.picker = FALSE ]))
    /\ ret' = [ exc |-> "ok", stuck |-> FALSE ]
    /\ UNCHANGED << vol, al, cs, stage, ct, trk >>

\* LineBuilder.__call__, lines 1187-1195: a right-click on the axes of the line
AddPoint ==
    /\ arg.lb.cid
    /\ arg.lb.line
    /\ \E p \in PointsAC :
         /\ arg.lb.xs # << >> => NextPointAC(arg.lb.xs[Len(arg.lb.xs)], p)
         /\ arg' = [ arg EXCEPT !.lb.xs = Append(@, p) ]
    /\ ret' = [ exc |-> "ok", stuck |-> FALSE ]
    /\ UNCHANGED << vol, al, cs, stage, ct, trk >>

\* cKDTree(outline).query(outline, k), line 473: point a is nearer to p than b
Nearer(outline, p, a, b) ==
    LET d(c) == Dist2(outline[p][1], outline[p][2], outline[c][1], outline[c][2])
    IN  d(a) < d(b) \/ (d(a) = d(b) /\ a < b)

\* lines 473-475: the nearest_neighs - 1 nearest other points of point p
min_dist_idx(outline, p) ==
    { a \in DOMAIN outline \ { p } :
        Cardinality({ b \in DOMAIN outline \ { p } : Nearer(outline, p, b, a) })
            < nearest_neighs - 1 }

\* lines 481-492: the walk from point pidx on, used_idxs being placed
RECURSIVE SortWalk(_, _, _)
SortWalk(outline, used_idxs, pidx) ==
    LET free == { a \in min_dist_idx(outline, pidx) : a \notin Range(used_idxs) }
        id   == CHOOSE a \in free : \A b \in free : b = a \/ Nearer(outline, pidx, a, b)
    IN  IF Len(used_idxs) >= Len(outline) THEN [ used_idxs |-> used_idxs, stuck |-> FALSE ]
        ELSE IF free = {} THEN [ used_idxs |-> used_idxs, stuck |-> TRUE ]
        ELSE SortWalk(outline, Append(used_idxs, id), id)

\* _sort_point_sequence begun at point pidx, the outcome of random.choice
sort_point_sequence(outline, pidx) ==
    LET sorted(w) == [ new_outline |-> [ k \in DOMAIN w.used_idxs |-> outline[w.used_idxs[k]] ],
                       stuck       |-> w.stuck ]
    IN  sorted(SortWalk(outline, << pidx >>, pidx))

\* complete_add_cell after linebuilder.stopit(), lines 553-561
CompleteAddCell(CS, PA, pidx, c) ==
    LET store(hull) == StoreCell(CS, PA.z, hull, points_within_hull(hull), c)
        sorted(s)   == IF s.stuck THEN [ CS |-> CS, exc |-> "TypeError", stuck |-> TRUE ]
                       ELSE [ CS |-> store(increase_point_resolution(s.new_outline)),
                              exc |-> "ok", stuck |-> FALSE ]
    IN  IF Len(PA.lb.xs) < 3 THEN [ CS |-> CS, exc |-> "ok", stuck |-> FALSE ]
        ELSE sorted(sort_point_sequence(PA.lb.xs, pidx))

\* lines 901-909: the end of the handler of enter
LeaveMode(PA) ==
    [ PA EXCEPT !.current_subplot = "None", !.current_state = "None",
                !.z = IF PA.layout = "single" THEN PA.zs ELSE NoPlane ]

\* what the handler of enter leaves when complete_add_cell has returned r
AfterComplete(PA, r) ==
    IF r.exc = "ok" /\ IsOk(r.CS) THEN LeaveMode(PA) ELSE PA

\* lines 883-909: the key enter in add mode
KeyEnter ==
    /\ arg.current_state = "add"
    /\ \/ /\ arg.current_subplot = "None"
          /\ arg' = LeaveMode(arg)
          /\ ret' = [ exc |-> "ok", stuck |-> FALSE ]
          /\ cs' = cs
       \/ /\ arg.current_subplot = "panel"
          /\ ~ arg.patch
          /\ ret' = [ exc |-> "ValueError", stuck |-> FALSE ]
          /\ UNCHANGED << arg, cs >>
       \/ /\ arg.current_subplot # "None"
          /\ arg.current_subplot = "panel" => arg.patch
          /\ ~ arg.lb.line
          /\ arg' = [ arg EXCEPT !.patch = FALSE, !.lb.cid = FALSE ]
          /\ ret' = [ exc |-> "NotImplementedError", stuck |-> FALSE ]
          /\ cs' = cs
       \/ /\ arg.current_subplot # "None"
          /\ arg.current_subplot = "panel" => arg.patch
          /\ arg.lb.line
          /\ \E pidx \in 1..Max({ 1, Len(arg.lb.xs) }), c \in CentresAC :
               \E r \in { CompleteAddCell(cs, arg, pidx, c) } :
                 /\ cs' = r.CS
                 /\ ret' = [ exc |-> IF IsOk(r.CS) THEN r.exc ELSE r.CS.err,
                             stuck |-> r.stuck ]
                 /\ arg' = AfterComplete([ arg EXCEPT !.patch = FALSE, !.lb.cid = FALSE,
                                                      !.lb.line = FALSE ], r)
    /\ UNCHANGED << vol, al, stage, ct, trk >>

\* lines 874-877 and 1010-1014: the key c while no action is going on
KeyCombine ==
    /\ arg.current_state = "None"
    /\ arg' = [ arg EXCEPT !.current_state = "com", !.CP = TRUE ]
    /\ ret' = [ exc |-> "ok", stuck |-> FALSE ]
    /\ UNCHANGED << vol, al, cs, stage, ct, trk >>

\* CellPicker_com.__call__, lines 1164-1172: cell = [lab, z]
CellPicker_com(list, cell) ==
    IF cell \notin Range(list)
    THEN Append(list, cell)
    ELSE Pop(list, IndexOf(list, cell))

\* lines 1136-1173: a right-click in the mask of a cell, on a panel of the
\* grid or on the single axes
PickCombineCS ==
    /\ arg.current_state = "com"
    /\ arg.CP
    /\ Len(arg.list_of_cells) < MaxPicks
    /\ \E z \in IF arg.layout = "grid" THEN PlanesAC ELSE { arg.z } :
         \E i \in DOMAIN cs.Masks[z] :
           arg' = [ arg EXCEPT !.z = z,
                               !.current_subplot = IF arg.layout = "grid" THEN "panel" ELSE @,
                               !.list_of_cells = CellPicker_com(@, << cs.labels[z][i], z >>) ]
    /\ ret' = [ exc |-> "ok", stuck |-> FALSE ]
    /\ UNCHANGED << vol, al, cs, stage, ct, trk >>

\* lines 883-884 and 897-909: the key enter in combine mode
KeyEnterCombine ==
    /\ arg.current_state = "com"
    /\ cs' = combine_cells(cs, arg.list_of_cells)
    /\ arg' = IF IsOk(cs') THEN LeaveMode([ arg EXCEPT !.CP = FALSE, !.list_of_cells = << >> ])
              ELSE [ arg EXCEPT !.CP = FALSE ]
    /\ ret' = [ exc |-> cs'.err, stuck |-> FALSE ]
    /\ UNCHANGED << vol, al, stage, ct, trk >>

NextAC ==
    \/ KeyAdd \/ SelectPanel \/ AddPoint \/ KeyEnter
    \/ KeyCombine \/ PickCombineCS \/ KeyEnterCombine

SpecAC == InitAC /\ [][NextAC]_vars

(***************************************************************************)
(* Vocabulary of the Z-Labeler claims.                                     *)
(***************************************************************************)
PlanesOf(v) == 0..(v.slices - 1)

\* plane z has been labelled to its last cell
PlaneLabelled(f, z) == f.pc = "done" \/ f.z > z

\* every label some cell of the volume carries
LabelsCarried(f) == UNION { Range(f.labels[z]) : z \in DOMAIN f.labels }

\* the cells of plane z-1 within the threshold of cell k of plane z
Candidates(v, z, k) ==
    IF z = 0 THEN {}
    ELSE { n \in DOMAIN v.centersi[z - 1] :
             Dist2(v.centersi[z][k], v.centersj[z][k],
                   v.centersi[z - 1][n], v.centersj[z - 1][n]) < distance_th * distance_th }

CandDist(v, z, k, n) ==
    Dist2(v.centersi[z][k], v.centersj[z][k], v.centersi[z - 1][n], v.centersj[z - 1][n])

\* the donor cell k of plane z proposes: its nearest candidate, the first of equals
Donor(v, z, k) ==
    CHOOSE n \in Candidates(v, z, k) :
        \A m \in Candidates(v, z, k) :
            \/ CandDist(v, z, k, n) < CandDist(v, z, k, m)
            \/ CandDist(v, z, k, n) = CandDist(v, z, k, m) /\ n <= m

MinDist(v, z, k) == CandDist(v, z, k, Donor(v, z, k))

\* the cells of plane z whose donor carries label L
Proposers(f, v, z, L) ==
    { k \in DOMAIN v.Outlines[z] :
        Candidates(v, z, k) # {} /\ f.labels[z - 1][Donor(v, z, k)] = L }

\* cell k of plane z carries a label no cell of an earlier plane and no other
\* cell of its own plane carries
CarriesFresh(f, z, k) ==
    /\ \A y \in 0..(z - 1) : f.labels[z][k] \notin Range(f.labels[y])
    /\ \A m \in DOMAIN f.labels[z] : m # k => f.labels[z][m] # f.labels[z][k]

(***************************************************************************)
(* C1: when _assign_labels has completed, no two Cell Instances of a plane *)
(* carry the same label.                                                   *)
(***************************************************************************)
C1_Claim ==
    al.pc = "done" =>
        \A z \in PlanesOf(vol) : \A a, b \in DOMAIN al.labels[z] :
            a # b => al.labels[z][a] # al.labels[z][b]

(***************************************************************************)
(* C2: a label handed out as fresh (to a plane-0 cell, a cell without      *)
(* candidate, the loser of a conflict or a displaced cell) is carried by   *)
(* no cell of the volume at the time it is handed out.                     *)
(***************************************************************************)
C2_Claim ==
    al.pc = "loop" =>
        LET b == AssignLabelsBranch(al, vol)
        IN  /\ b.kind \in {"first", "nocand", "lose"} => b.label \notin LabelsCarried(al)
            /\ b.kind = "displace" => (al.last_label + 1) \notin LabelsCarried(al)

(***************************************************************************)
(* C3: when exactly two cells A and B of plane z propose label L and A is  *)
(* strictly nearer to plane z-1 than B, the labeler gets through the plane *)
(* and leaves A with L and B with a fresh label, in either visiting order. *)
(***************************************************************************)
C3_Claim ==
    \A z \in PlanesOf(vol) \ {0} : \A A, B \in DOMAIN vol.Outlines[z] :
        ( /\ PlaneLabelled(al, z - 1)
          /\ A # B
          /\ Candidates(vol, z, A) # {}
          /\ Proposers(al, vol, z, al.labels[z - 1][Donor(vol, z, A)]) = {A, B}
          /\ MinDist(vol, z, A) < MinDist(vol, z, B) )
        => /\ ~(al.pc = "IndexError" /\ al.z = z)
           /\ PlaneLabelled(al, z) =>
                /\ al.labels[z][A] = al.labels[z - 1][Donor(vol, z, A)]
                /\ CarriesFresh(al, z, B)

(***************************************************************************)
(* C4: the candidates of a cell are exactly the cells of plane z-1 nearer  *)
(* than the threshold, and a cell that has a candidate and is the only     *)
(* cell of its plane proposing its donor ends with that donor's label.     *)
(***************************************************************************)
C4_Claim ==
    \A z \in PlanesOf(vol) \ {0} : \A k \in DOMAIN vol.Outlines[z] :
        /\ Range(distances_idx(vol.centersi, vol.centersj, z, k)) = Candidates(vol, z, k)
        /\ ( /\ PlaneLabelled(al, z)
             /\ Candidates(vol, z, k) # {}
             /\ \A m \in DOMAIN vol.Outlines[z] :
                    (m # k /\ Candidates(vol, z, m) # {})
                        => Donor(vol, z, m) # Donor(vol, z, k) )
           => al.labels[z][k] = al.labels[z - 1][Donor(vol, z, k)]

(***************************************************************************)
(* Vocabulary of the Temporal Tracker claims.  Past cells of time t are    *)
(* the entries i of FinalLabels[t-1], future cells the entries j of        *)
(* TLabels[t].                                                             *)
(***************************************************************************)
\* the time points whose iteration the last run of cell_tracking completed
TrackedTimes == { t \in 0..(MaxTimes - 1) : t < trk.t \/ trk.pc = "done" }

\* the iteration of time t raised
RaisedAt(t) == trk.t = t /\ trk.pc \in { "ValueError", "IndexError" }

PastCells(t) == DOMAIN trk.FinalLabels[t - 1]

FutureCells(t) == DOMAIN ct.TLabels[t]

\* the global id the correspondence table of time t gives future cell j
GlobalId(t, j) ==
    LET lc == ct.label_correspondance[t]
    IN  lc[CHOOSE k \in DOMAIN lc : lc[k][1] = ct.TLabels[t][j]][2]

ZDifference(t, i, j) == Abs(trk.FinalCenters[t - 1][i][1] - ct.TCenters[t][j][1])

\* the squared pixel distance in the xy plane
XYDist2(t, i, j) ==
    LET c1 == trk.FinalCenters[t - 1][i]
        c2 == ct.TCenters[t][j]
    IN  (c1[2] - c2[2]) * (c1[2] - c2[2]) + (c1[3] - c2[3]) * (c1[3] - c2[3])

\* the distance of the claim: the sentinel when the planes differ by more than 2
GatedDist2(t, i, j) == IF ZDifference(t, i, j) > 2 THEN gated_dist2 ELSE XYDist2(t, i, j)

\* the nearest cell is the first of the cells at the least distance
NearestPast(t, j) ==
    Min({ i \in PastCells(t) :
            \A i2 \in PastCells(t) : GatedDist2(t, i, j) <= GatedDist2(t, i2, j) })

NearestFuture(t, i) ==
    Min({ j \in FutureCells(t) :
            \A j2 \in FutureCells(t) : GatedDist2(t, i, j) <= GatedDist2(t, i, j2) })

MutualNearest(t, i, j) == NearestPast(t, j) = i /\ NearestFuture(t, i) = j

Accepted(t, i, j) == MutualNearest(t, i, j) /\ GatedDist2(t, i, j) < tracking_th2

Inherits(t, i, j) == GlobalId(t, j) = trk.FinalLabels[t - 1][i]

\* the ids of the time points before t
IdsBefore(t) == UNION { Range(trk.FinalLabels[u]) : u \in 0..(t - 1) }

(***************************************************************************)
(* C5: in a run of cell_tracking every fresh id is greater than every id   *)
(* given before it, and no step (a delete_cell edit with its re-run of     *)
(* cell_tracking included) gives an id that a cell of a time point carried *)
(* to a different cell of that time point.                                 *)
(***************************************************************************)
FreshIdsIncrease ==
    \A t \in TrackedTimes \ {0} : \A k \in DOMAIN trk.FinalLabels[t] :
        LET g == trk.FinalLabels[t][k]
        IN  g \notin Range(trk.FinalLabels[t - 1]) =>
              /\ \A x \in IdsBefore(t) : x < g
              /\ \A k2 \in 1..(k - 1) : trk.FinalLabels[t][k2] < g

NoIdReused ==
    \A t \in DOMAIN ct.FinalLabels \cap DOMAIN ct'.FinalLabels :
        \A i \in DOMAIN ct.FinalLabels[t], k \in DOMAIN ct'.FinalLabels[t] :
            ct.FinalLabels[t][i] = ct'.FinalLabels[t][k]
                => ct.FinalOulines[t][i] = ct'.FinalOulines[t][k]

C5_Claim == [][FreshIdsIncrease' /\ NoIdReused]_vars

(***************************************************************************)
(* C6: at every tracked time point t > 0, future cell j has the global id  *)
(* of past cell i if and only if each is the other's nearest and their     *)
(* distance, the sentinel when their planes differ by more than 2, is      *)
(* below 7.5; so no pair that passes an id is more than 2 planes apart and *)
(* a past cell passes its id to at most one future cell.                   *)
(***************************************************************************)
C6_Claim ==
    \A t \in TrackedTimes \ {0} :
        /\ \A i \in PastCells(t), j \in FutureCells(t) :
              Inherits(t, i, j) <=> Accepted(t, i, j)
        /\ \A i \in PastCells(t), j \in FutureCells(t) :
              Inherits(t, i, j) => ZDifference(t, i, j) <= 2
        /\ \A i \in PastCells(t) :
              Cardinality({ j \in FutureCells(t) : Inherits(t, i, j) }) <= 1

\* a tracked time point where one pair passes an id and another pair, nearer in
\* the xy plane than every other and below 7.5, is more than 2 planes apart
C6_Witness ==
    \E t \in TrackedTimes \ {0} :
        /\ \E i \in PastCells(t), j \in FutureCells(t) : Inherits(t, i, j)
        /\ \E i \in PastCells(t), j \in FutureCells(t) :
              /\ ZDifference(t, i, j) > 2
              /\ XYDist2(t, i, j) < tracking_th2
              /\ \A i2 \in PastCells(t) \ {i} : XYDist2(t, i, j) < XYDist2(t, i2, j)
              /\ \A j2 \in FutureCells(t) \ {j} : XYDist2(t, i, j) < XYDist2(t, i, j2)
              /\ ~Inherits(t, i, j)

(***************************************************************************)
(* C7: at every time point t > 0 that cell_tracking reached and that holds *)
(* a cell, the iteration completes, and the future cells outside every     *)
(* accepted pair get, in their order, the ids following the greatest id    *)
(* of the earlier time points, whatever the number of accepted pairs.      *)
(***************************************************************************)
C7_Claim ==
    \A t \in 1..(MaxTimes - 1) :
        ((t \in TrackedTimes \/ RaisedAt(t)) /\ FutureCells(t) # {}) =>
            /\ ~RaisedAt(t)
            /\ \A j \in FutureCells(t) :
                 (\A i \in PastCells(t) : ~Accepted(t, i, j)) =>
                     GlobalId(t, j) = Max(IdsBefore(t))
                         + Cardinality({ j2 \in 1..j :
                               \A i \in PastCells(t) : ~Accepted(t, i, j2) })

(***************************************************************************)
(* C8: once the iteration t = 0 of cell_tracking has completed, the global *)
(* ids of time 0 are the local labels, and the correspondence table of     *)
(* time 0 is the list of (l, l) over the local labels l.                   *)
(***************************************************************************)
C8_Claim ==
    0 \in TrackedTimes =>
        /\ trk.FinalLabels[0] = ct.TLabels[0]
        /\ ct.TLabels[0] = ct.CSt[0].labels_centers
        /\ ct.label_correspondance[0]
             = [ k \in DOMAIN ct.TLabels[0] |-> << ct.TLabels[0][k], ct.TLabels[0][k] >> ]

\* time 0 is tracked and holds two 3D Cells
C8_Witness == 0 \in TrackedTimes /\ Len(ct.TLabels[0]) >= 2

(***************************************************************************)
(* Vocabulary of the pipeline claims.                                      *)
(***************************************************************************)
\* the Cell Instances of a volume, as (plane, position in the plane)
Occurrences(c) ==
    { o \in (0..(c.slices - 1)) \X (1..MaxCellsCS) : o[2] \in DOMAIN c.labels[o[1]] }

LabelAt(c, o) == c.labels[o[1]][o[2]]

WeightAt(c, o) == c.Masks[o[1]][o[2]].w

LabelsOfVolume(c) == { LabelAt(c, o) : o \in Occurrences(c) }

OccurrencesOf(c, l) == { o \in Occurrences(c) : LabelAt(c, o) = l }

PlanesOfLabel(c, l) == { o[1] : o \in OccurrencesOf(c, l) }

CallDone == stage = Len(Stages) + 1 /\ IsOk(cs)

(***************************************************************************)
(* C9: when __call__ has completed, labels_centers holds every label of    *)
(* the volume exactly once, and the 3D Cell of a label is one of its plane *)
(* occurrences whose intensity sum is at least that of every other         *)
(* occurrence of the label, on the lowest plane among those of maximal     *)
(* intensity sum.                                                          *)
(***************************************************************************)
C9_Claim ==
    CallDone =>
        /\ \A a, b \in DOMAIN cs.labels_centers :
              a # b => cs.labels_centers[a] # cs.labels_centers[b]
        /\ Range(cs.labels_centers) = LabelsOfVolume(cs)
        /\ \A i \in DOMAIN cs.labels_centers :
              \E o \in OccurrencesOf(cs, cs.labels_centers[i]) :
                /\ cs.centers_outlines[i] = cs.Outlines[o[1]][o[2]]
                /\ cs.centers_weight[i] = WeightAt(cs, o)
                /\ cs.centers_positions[i]
                      = << o[1], cs.centersj[o[1]][o[2]], cs.centersi[o[1]][o[2]] >>
                /\ \A p \in OccurrencesOf(cs, cs.labels_centers[i]) :
                      /\ WeightAt(cs, p) <= WeightAt(cs, o)
                      /\ WeightAt(cs, p) = WeightAt(cs, o) => o[1] <= p[1]

\* a completed call with a label whose maximal intensity sum is on two planes,
\* and a label whose maximal intensity sum is not on its lowest plane
C9_Witness ==
    /\ CallDone
    /\ \E l \in LabelsOfVolume(cs) : \E o, p \in OccurrencesOf(cs, l) :
          /\ o[1] < p[1]
          /\ WeightAt(cs, o) = WeightAt(cs, p)
          /\ \A q \in OccurrencesOf(cs, l) : WeightAt(cs, q) <= WeightAt(cs, o)
    /\ \E l \in LabelsOfVolume(cs) : \E o, p \in OccurrencesOf(cs, l) :
          /\ o[1] < p[1]
          /\ WeightAt(cs, o) < WeightAt(cs, p)

(***************************************************************************)
(* C10: once _remove_short_cells and the relabeling after it have run,     *)
(* every label of the volume is on at least 2 planes.                      *)
(***************************************************************************)
C10_Claim ==
    (stage > 7 /\ IsOk(cs)) =>
        \A l \in LabelsOfVolume(cs) : Cardinality(PlanesOfLabel(cs, l)) >= 2

(***************************************************************************)
(* Vocabulary of the overlap claims.  In SpecOV ret[1] is the overlap of   *)
(* (A, B) and ret[2] that of (B, A), A and B the masks of the first call.  *)
(***************************************************************************)
MaskA == IF Len(ret) = 1 THEN arg.m2.px ELSE arg.m1.px
MaskB == IF Len(ret) = 1 THEN arg.m1.px ELSE arg.m2.px

Common == Cardinality(MaskA \cap MaskB)
Smaller == Min({ Cardinality(MaskA), Cardinality(MaskB) })

\* the value v is the number n / d
IsQuotient(v, n, d) == v \in Int \X Int /\ v[2] # 0 /\ v[1] * d = n * v[2]

(***************************************************************************)
(* C11: for non-empty masks A and B the overlap is 100*|A n B|/min(|A|,|B|) *)
(* in relative mode and 200*|A n B|/(|A|+|B|) in absolute mode; the masks  *)
(* {(0,0),(1,0)} and {(1,0),(2,0)} give 50 in relative mode.               *)
(***************************************************************************)
C11_Claim ==
    (Len(ret) >= 1 /\ MaskA # {} /\ MaskB # {}) =>
        /\ arg.relative => IsQuotient(ret[1], 100 * Common, Smaller)
        /\ ~arg.relative =>
              IsQuotient(ret[1], 200 * Common, Cardinality(MaskA) + Cardinality(MaskB))
        /\ ( /\ arg.relative
             /\ MaskA = { << 0, 0 >>, << 1, 0 >> }
             /\ MaskB = { << 1, 0 >>, << 2, 0 >> } ) => ret[1] = << 50, 1 >>

\* the example of the claim has been computed
C11_Witness ==
    /\ Len(ret) >= 1
    /\ arg.relative
    /\ MaskA = { << 0, 0 >>, << 1, 0 >> }
    /\ MaskB = { << 1, 0 >>, << 2, 0 >> }

(***************************************************************************)
(* C12: for non-empty masks A and B, overlap(A, B) = overlap(B, A), in     *)
(* relative and in absolute mode.                                          *)
(***************************************************************************)
C12_Claim ==
    (Len(ret) = 2 /\ MaskA # {} /\ MaskB # {}) => ret[1] = ret[2]

\* both orders computed on masks of different sizes that share a pixel
C12_Witness ==
    /\ Len(ret) = 2
    /\ arg.relative
    /\ Cardinality(MaskA) < Cardinality(MaskB)
    /\ MaskA \cap MaskB # {}

(***************************************************************************)
(* C13: when one or both masks of a call are empty, the overlap returned   *)
(* is 0.                                                                   *)
(***************************************************************************)
C13_Claim ==
    (Len(ret) >= 1 /\ (MaskA = {} \/ MaskB = {})) => IsQuotient(ret[1], 0, 1)

(***************************************************************************)
(* Vocabulary of the barrier claims.  Position i of a signal here is index *)
(* i-1 of the source.                                                      *)
(***************************************************************************)
Valleys == ret.m.b

\* the signal of the call is the list s of integers
SignalIs(s) == arg.intensity = [ i \in DOMAIN s |-> << s[i], 1 >> ]

PeaksLeft(v)  == { q \in DOMAIN arg.intensity : q < v /\ IsPeak(arg.intensity, q) }
PeaksRight(v) == { q \in DOMAIN arg.intensity : q > v /\ IsPeak(arg.intensity, q) }

\* (min(leftPeak, rightPeak) - valley) / min(leftPeak, rightPeak) >= threshold
DeepEnough(v) ==
    /\ PeaksLeft(v) # {}
    /\ PeaksRight(v) # {}
    /\ LET l == ret.m.x[Max(PeaksLeft(v))]
           r == ret.m.x[Min(PeaksRight(v))]
           p == IF RLess(l, r) THEN l ELSE r
       IN  /\ p[1] > 0
           /\ ~RLess(RSub(p, ret.m.x[v]),
                     << arg.overlap_th[1] * p[1], arg.overlap_th[2] * p[2] >>)

\* the depth filter has run to its end and position v is a split point
KeptAfter(v) == ret'.pc = "done" /\ v \in Range(ret'.m.b)

(***************************************************************************)
(* C14: the depth filter keeps a valley that remains after the merge loop  *)
(* if and only if (min(leftPeak, rightPeak) - valley)/min(leftPeak,        *)
(* rightPeak) >= overlap_gradient_th, with the evidence at its nearest     *)
(* peak on each side; for [10,10,2,10,10] and threshold 0.5 the valley at  *)
(* index 2 is kept as a split point, for [10,10,9,10,10] it is discarded.  *)
(***************************************************************************)
C14_Claim ==
    [][ ret.pc = "depth" =>
          /\ \A n \in DOMAIN Valleys : KeptAfter(Valleys[n]) <=> DeepEnough(Valleys[n])
          /\ (SignalIs(<< 10, 10, 2, 10, 10 >>) /\ arg.overlap_th = << 1, 2 >>)
                => KeptAfter(3)
          /\ (SignalIs(<< 10, 10, 9, 10, 10 >>) /\ arg.overlap_th = << 1, 2 >>)
                => ~KeptAfter(3) ]_vars

(***************************************************************************)
(* C15: when the merge loop exits, no two adjacent valleys are closer than *)
(* 5 plane indices, and one more merge pass on the valley list and the     *)
(* flattened signal changes neither.                                       *)
(***************************************************************************)
C15_Claim ==
    ret.pc = "depth" =>
        /\ \A n \in 1..(Len(Valleys) - 1) : Valleys[n + 1] - Valleys[n] >= 5
        /\ MergePass(ret.m).b = Valleys
        /\ MergePass(ret.m).x = ret.m.x

\* the loop has exited after a pass that merged, with a valley left
C15_Witness == ret.pc = "depth" /\ ret.passes >= 2 /\ Len(Valleys) >= 1

InitialValleys == Len(InitialBarriers(arg.intensity))

\* a pass that merges leaves fewer valleys than it found
MergingPassReduces ==
    (ret.pc = "merge" /\ ret'.m.keep_checking) => Len(ret'.m.b) < Len(ret.m.b)

(***************************************************************************)
(* C20: the merge loop terminates: each pass that merges strictly reduces  *)
(* the number of valleys, and the loop runs at most as many passes as      *)
(* there are initial valleys (passes counts the passes begun, so a bound   *)
(* on it is a bound on the run of the loop).                               *)
(***************************************************************************)
C20_Claim ==
    /\ [](ret.passes <= InitialValleys)
    /\ [][MergingPassReduces]_vars

\* C20 as amended: at most one pass when there is no initial valley, else at
\* most as many passes as initial valleys
C20_Amended ==
    /\ [](ret.passes <= Max({ 1, InitialValleys }))
    /\ [][MergingPassReduces]_vars

\* the loop has run as many passes as there were valleys, more than one
C20_Witness == ret.pc = "depth" /\ ret.passes >= 2 /\ ret.passes = InitialValleys

(***************************************************************************)
(* Vocabulary of the split claim.  Right after _separate_concatenated_cells *)
(* (the call is about to run update2 or update3) Zlabel_l and Zlabel_z are *)
(* the index the method built before it popped, and labels are the labels  *)
(* it popped from: a split point was applied at plane z of label l when z  *)
(* is listed for l more often than l is still on plane z.                  *)
(***************************************************************************)
Count(s, v) == Cardinality({ i \in DOMAIN s : s[i] = v })

AfterSeparate == stage \in { 3, 5 } /\ IsOk(cs)

SplitPoints ==
    { sp \in (0..(cs.slices - 1)) \X Range(cs.Zlabel_l) :
        \E c \in DOMAIN cs.Zlabel_l :
            /\ cs.Zlabel_l[c] = sp[2]
            /\ Count(cs.Zlabel_z[c], sp[1]) > Count(cs.labels[sp[1]], sp[2]) }

\* instances of label sp[2] on either side of the plane of split point sp
CutPairs(sp) ==
    { op \in OccurrencesOf(cs, sp[2]) \X OccurrencesOf(cs, sp[2]) :
        op[1][1] < sp[1] /\ op[2][1] > sp[1] }

(***************************************************************************)
(* C16: when a split point at plane z of label L has been applied by       *)
(* _separate_concatenated_cells and _update then recomputes the labels,    *)
(* the instances that carried L below z and those that carried L above z   *)
(* no longer share a label.                                                *)
(***************************************************************************)
C16_Claim ==
    [][ (AfterSeparate /\ IsOk(cs')) =>
          \A sp \in SplitPoints : \A op \in CutPairs(sp) :
              LabelAt(cs', op[1]) # LabelAt(cs', op[2]) ]_vars

\* a split point with instances of its label on both sides has been applied
\* and the labels are about to be recomputed
C16_Witness ==
    AfterSeparate /\ \E sp \in SplitPoints : CutPairs(sp) # {}

(***************************************************************************)
(* Vocabulary of the raw-segmentation claim.                               *)
(***************************************************************************)
\* the planes whose outlines have been kept
KeptPlanes == 1..Len(ret.Outlines)

\* the mask the code computes from detection d of a plane
MaskOfDetection(plane, d) ==
    points_within_hull(increase_point_resolution(plane[d + 1]))

\* the detections of a plane whose interior mask is not empty, in their order
Retained(plane) ==
    SortedSeq({ d \in 0..(Len(plane) - 1) : MaskOfDetection(plane, d) # {} })

\* C17: raw segmentation never aborts on detections with an empty interior
\* mask, whatever their number on a plane; on every plane kept, Outlines[z]
\* and Masks[z] have the same length, the k-th outline is the outline the
\* k-th mask was computed from, no retained mask is empty, and the outlines
\* kept are those of the detections whose mask is not empty.
C17_Claim ==
    /\ ret.pc # "IndexError"
    /\ \A z \in KeptPlanes :
         /\ Len(ret.Outlines[z]) = Len(ret.Masks[z])
         /\ \A k \in DOMAIN ret.Outlines[z] :
              /\ k \in DOMAIN ret.Masks[z]
              /\ ret.Outlines[z][k].src = ret.Masks[z][k].src
              /\ ret.Masks[z][k].px = points_within_hull(ret.Outlines[z][k].pts)
              /\ ret.Masks[z][k].px # {}
         /\ [ k \in DOMAIN ret.Outlines[z] |-> ret.Outlines[z][k].src ] = Retained(arg[z - 1])

(***************************************************************************)
(* Vocabulary of the add-mode claim.                                       *)
(***************************************************************************)
\* the handler of enter has run complete_add_cell and the walk got stuck
WalkGotStuck == arg.current_state = "add" /\ arg.lb.line /\ ret'.stuck

\* the editor takes the next command: no action is going on any more
EditorReady(PA) == PA.current_state = "None" /\ PA.current_subplot = "None"

\* C18: when the walk of _sort_point_sequence gets stuck before all points
\* are placed, the insert ends as a recoverable failure: Outlines, Masks and
\* labels of every plane are unchanged, and the editor is back in the state
\* in which add mode can be entered again and later commands are accepted.
C18_Claim ==
    [][ WalkGotStuck =>
          /\ cs'.Outlines = cs.Outlines
          /\ cs'.Masks = cs.Masks
          /\ cs'.labels = cs.labels
          /\ EditorReady(arg') ]_vars

(***************************************************************************)
(* Vocabulary of the missing-label claim.                                  *)
(***************************************************************************)
\* a step in which delete_cell has run on the selection ct'.list_of_cells
DeleteRan == ct.pc = "ui" /\ ct'.edits = ct.edits + 1

\* the pairs of the selection before pair i that are the pair p
Earlier(cells, i, p) == Cardinality({ j \in 1..(i - 1) : cells[j] = p })

\* the label of pair i is no longer on its plane when its turn comes: the
\* pairs before it have taken every instance the plane had of it
LabelGone(c, cells, i) ==
    Count(c.labels[cells[i][2]], cells[i][1]) <= Earlier(cells, i, cells[i])

GonePairs(c, cells) == { i \in DOMAIN cells : LabelGone(c, cells, i) }

\* a step in which plot_axis has run, on plane ret'.z of time ret'.t
PlotRan == ct' = ct /\ ret' # ret

\* the cells of the plotted plane whose label has no entry in the table
Unlisted(CS, table, z) ==
    { k \in DOMAIN CS.labels[z] : \A e \in DOMAIN table : table[e][1] # CS.labels[z][k] }

\* C19: a lookup of a label that does not exist fails with an error and
\* touches no other label.  delete_cell on a selection holding a pair whose
\* label is not on its plane ends with IndexError, has removed only the
\* pairs before that one, each from its own label, and does not go on to
\* relabel or track; plot_axis on a plane with a cell whose label is not in
\* the correspondence table of the time point ends with IndexError before
\* that cell, and every global label it did return is that of the entry of
\* the cell's own label.
C19_Claim ==
    [][ /\ (DeleteRan /\ GonePairs(ct.CSt[PA_t], ct'.list_of_cells) # {}) =>
             /\ ct'.CSt[PA_t].err = "IndexError"
             /\ \A z \in DOMAIN ct.CSt[PA_t].labels :
                  \A l \in Range(ct.CSt[PA_t].labels[z]) \cup Range(ct'.CSt[PA_t].labels[z]) :
                    Count(ct'.CSt[PA_t].labels[z], l)
                      = Count(ct.CSt[PA_t].labels[z], l)
                          - Earlier(ct'.list_of_cells,
                                    Min(GonePairs(ct.CSt[PA_t], ct'.list_of_cells)),
                                    << l, z >>)
             /\ trk' = trk
             /\ ct'.label_correspondance = ct.label_correspondance
             /\ ct'.FinalLabels = ct.FinalLabels
        /\ (PlotRan /\ Unlisted(ct.CSt[ret'.t], ct.label_correspondance[ret'.t], ret'.z) # {}) =>
             /\ ret'.exc = "IndexError"
             /\ Len(ret'.Tlabs)
                  < Min(Unlisted(ct.CSt[ret'.t], ct.label_correspondance[ret'.t], ret'.z))
             /\ \A k \in DOMAIN ret'.Tlabs :
                  \E e \in DOMAIN ct.label_correspondance[ret'.t] :
                    /\ ct.label_correspondance[ret'.t][e][1] = ct.CSt[ret'.t].labels[ret'.z][k]
                    /\ ct.label_correspondance[ret'.t][e][2] = ret'.Tlabs[k] ]_vars

\* the Enter key has been pressed again on a selection whose labels the first
\* delete removed, and plot_axis has met a cell without an entry
C19_Witness ==
    /\ ct.pc = "ui"
    /\ ct.edits >= 2
    /\ ct.CSt[PA_t].err = "IndexError"
    /\ \E i \in DOMAIN ct.list_of_cells :
         ct.list_of_cells[i][1] \notin Range(ct.CSt[PA_t].labels[ct.list_of_cells[i][2]])
    /\ ret.exc = "IndexError"
    /\ Unlisted(ct.CSt[ret.t], ct.label_correspondance[ret.t], ret.z) # {}

(***************************************************************************)
(* Vocabulary of the smoothed-continuity claim.                            *)
(***************************************************************************)
\* the track indices other than i within the z-neighborhood radius of i
NeighbourIndices(i) ==
    { k \in DOMAIN arg.msks : k # i /\ Abs(k - i) <= z_neighborhood }

\* the overlap score of the masks of track indices i and k
ScoreOf(i) == [ k \in DOMAIN arg.msks |-> compute_overlap(arg.relative, arg.msks[i], arg.msks[k]) ]

\* C21: for each plane index i of a label-track the smoothed continuity is
\* the mean of overlap(mask_i, mask_k) over the track indices k # i with
\* |k - i| <= z_neighborhood, and 0 when there is no such k, whether the
\* overlap matrix was built in full or in the restricted mode.
C21_Claim ==
    ret.pc = "done" =>
        \A i \in DOMAIN arg.msks :
            IF NeighbourIndices(i) = {} THEN REq(ret.conv[i], << 0, 1 >>)
            ELSE REq(RScale(Cardinality(NeighbourIndices(i)), ret.conv[i]),
                     RSum(ScoreOf(i), NeighbourIndices(i)))

(***************************************************************************)
(* Vocabulary of the claims on the edits of a volume.                      *)
(***************************************************************************)
\* a step in which the edit op has run on the selection arg'.list_of_cells
EditRan(op) == stage = Len(Stages) + 1 /\ stage' = stage + 1 /\ arg'.op = op

\* the selected pair with the higher label, and the one with the lower
HigherPair(cells) == IF cells[1][1] > cells[2][1] THEN cells[1] ELSE cells[2]

LowerPair(cells) == IF cells[1][1] > cells[2][1] THEN cells[2] ELSE cells[1]

\* the Cell Instance a selected pair (label, plane) stands for in volume c
InstanceOf(c, pair) == << pair[2], IndexOf(c.labels[pair[2]], pair[1]) >>

\* C22: when CellSegmentation.combine_cells has completed on a selection of
\* two cells with different labels, the Cell Instance that carried the
\* higher label carries, in the per-plane label lists the operation leaves,
\* the label of the cell that carried the lower label.
C22_Claim ==
    [][ (EditRan("combine_cells") /\ IsOk(cs')) =>
          LabelAt(cs', InstanceOf(cs, HigherPair(arg'.list_of_cells)))
            = LabelAt(cs', InstanceOf(cs, LowerPair(arg'.list_of_cells))) ]_vars

(***************************************************************************)
(* Vocabulary of the claims on the tracking editor.                        *)
(***************************************************************************)
\* the Enter key in combine mode has run combine_cells on two selected cells
\* and combine_cells has returned
CombineRan ==
    /\ ct.pc = "ui" /\ arg.current_state = "com"
    /\ ct'.edits = ct.edits + 1
    /\ Len(ct.cells_to_combine) = 2
    /\ ret'.op = "combine_cells" /\ ret'.exc = "AttributeError"

\* of the two selected cells [global id, time, table entry], the one with the
\* higher and the one with the lower global id
HigherCell(sel) == IF sel[1][1] > sel[2][1] THEN sel[1] ELSE sel[2]

LowerCell(sel) == IF sel[1][1] > sel[2][1] THEN sel[2] ELSE sel[1]

\* list with exactly one entry that held hi now holding lo, the rest as it was
OneEntryReplaced(before, after, hi, lo) ==
    \E idd \in DOMAIN before :
        /\ before[idd] = hi
        /\ after = [ before EXCEPT ![idd] = lo ]

\* the local label lists of every time point
LocalLabels(o) == [ t \in DOMAIN o.CSt |-> o.CSt[t].labels_centers ]

DeleteReturned ==
    /\ ct.pc = "ui" /\ arg.current_state = "del" /\ arg.live
    /\ ct'.edits = ct.edits + 1
    /\ ret'.op = "delete_cell" /\ ret'.exc = "AttributeError"

\* two volumes with the same detections carrying the same labels
SameSegmentation(a, b) ==
    a.labels = b.labels /\ a.Outlines = b.Outlines /\ a.Masks = b.Masks

\* the volume with the selected instances removed
InstancesRemoved(CS, cells) == DeleteCellPops(CS, cells)

(***************************************************************************)
(* C24: after a manual delete at time point t, the volume of time t is     *)
(* what the whole post-processing (labels, barrier detection and cut, the  *)
(* short-track filter) makes of the edited volume, and the labels,         *)
(* Outlines and Masks of the volumes of all other time points are as they  *)
(* were.                                                                   *)
(***************************************************************************)
C24_Claim ==
    [][ DeleteReturned =>
          /\ SameSegmentation(ct'.CSt[arg.cst],
                              Segment(InstancesRemoved(ct.CSt[arg.cst], arg.list_of_cells)))
          /\ \A t \in DOMAIN ct.CSt :
                 t # arg.cst => SameSegmentation(ct'.CSt[t], ct.CSt[t]) ]_vars

(***************************************************************************)
(* C25: in combine mode the selection never holds more than two cells: a   *)
(* right-click on a third cell that is not selected yet leaves a selection *)
(* of two as it is.  Stated on the segmentation editor (CellPicker_com).   *)
(***************************************************************************)
C25_Claim ==
    [][ (arg.current_state = "com" /\ Len(arg.list_of_cells) = 2
            /\ arg'.current_state = "com"
            /\ Range(arg.list_of_cells) \subseteq Range(arg'.list_of_cells))
        => arg'.list_of_cells = arg.list_of_cells ]_vars

\* the 3D-Cell labels of a volume: the labels its planes carry
VolumeLabels(CS) == UNION { Range(CS.labels[z]) : z \in DOMAIN CS.labels }

\* the entries of a correspondence table for a local label
EntriesOf(table, lab) == { k \in DOMAIN table : table[k][1] = lab }

(***************************************************************************)
(* C26: once __call__ has returned, and after any delete and combine edits *)
(* made since, the correspondence table of every time point t has exactly  *)
(* one entry for each local 3D-Cell label of the volume of time t and no   *)
(* other entry, and the global id of an entry is the one FinalLabels[t]    *)
(* holds for that cell.                                                    *)
(***************************************************************************)
C26_Claim ==
    ct.pc = "ui" =>
        \A t \in DOMAIN ct.CSt :
            /\ \A lab \in VolumeLabels(ct.CSt[t]) :
                   Cardinality(EntriesOf(ct.label_correspondance[t], lab)) = 1
            /\ \A k \in DOMAIN ct.label_correspondance[t] :
                   /\ ct.label_correspondance[t][k][1] \in VolumeLabels(ct.CSt[t])
                   /\ k \in DOMAIN ct.FinalLabels[t]
                   /\ ct.label_correspondance[t][k][2] = ct.FinalLabels[t][k]

\* no two cells of one time point carry the same global id
DistinctIds(o) ==
    \A t \in DOMAIN o.FinalLabels :
        \A m, n \in DOMAIN o.FinalLabels[t] :
            m # n => o.FinalLabels[t][m] # o.FinalLabels[t][n]

\* __call__ has returned
CallReturned == ct.pc = "constructed" /\ ct'.pc = "ui"

IndexBuilt ==
    /\ stage > 1
    /\ IsOk(cs)
    /\ stage - 1 \in DOMAIN Stages =>
           Stages[stage - 1] \in { "update1", "update2", "update3", "update4", "position3d" }

(***************************************************************************)
(* C28: the label index built by _label_per_z covers the whole volume      *)
(* whatever its number of planes: every label on any plane is listed, once, *)
(* with exactly the planes it is on.                                       *)
(***************************************************************************)
C28_Claim ==
    IndexBuilt =>
        \A l \in LabelsOfVolume(cs) :
            /\ Cardinality({ k \in DOMAIN cs.Zlabel_l : cs.Zlabel_l[k] = l }) = 1
            /\ Range(cs.Zlabel_z[IndexOf(cs.Zlabel_l, l)]) = PlanesOfLabel(cs, l)

\* __call__ has returned, or the one of delete_cell, combine_cells,
\* complete_add_cell and update_labels called after it has returned
OperationCompleted == stage > Len(Stages) /\ IsOk(cs)

\* the five per-plane lists of plane z have the same length
Lockstep(c, z) ==
    /\ Len(c.Outlines[z]) = Len(c.labels[z])
    /\ Len(c.Masks[z]) = Len(c.labels[z])
    /\ Len(c.centersi[z]) = Len(c.labels[z])
    /\ Len(c.centersj[z]) = Len(c.labels[z])

(***************************************************************************)
(* C29: after each of __call__, delete_cell, combine_cells,                *)
(* complete_add_cell and update_labels of CellSegmentation has completed,  *)
(* for every plane z the lists labels[z], Outlines[z], Masks[z],           *)
(* centersi[z] and centersj[z] have the same length, and the set of labels *)
(* in labels_centers equals the set of labels occurring in labels.         *)
(***************************************************************************)
C29_Claim ==
    OperationCompleted =>
        /\ \A z \in 0..(cs.slices - 1) : Lockstep(cs, z)
        /\ Range(cs.labels_centers)
              = UNION { Range(cs.labels[z]) : z \in 0..(cs.slices - 1) }

\* delete_cell has returned after taking the planes of a label-track of
\* several planes, and cells are left in the volume
C29_Witness ==
    /\ stage = Len(Stages) + 2
    /\ IsOk(cs)
    /\ arg.op = "delete_cell"
    /\ Len(arg.list_of_cells) > 1
    /\ cs.labels_centers # << >>

\* undo_corrections was the last method called and has returned
UndoReturned == ct.pc = "ui" /\ ret.op = "undo_corrections"

(***************************************************************************)
(* C30: after __call__ has completed and any sequence of delete and        *)
(* combine edits, undo_corrections makes TLabels, TCenters, TOutlines,     *)
(* FinalLabels, FinalCenters, FinalOulines, label_correspondance and CSt   *)
(* equal to their values at the completion of __call__ (kept in vol); the  *)
(* saved snapshot copyCT is never changed by an edit, so every use of the  *)
(* restore gives that same result.                                         *)
(***************************************************************************)
C30_Claim ==
    /\ ct.pc = "ui" => Saved(ct.copyCT) = vol
    /\ UndoReturned => Saved(ct) = vol

\* undo_corrections has returned after edits were made in a window that was
\* open when the volumes were first restored; the volume that window still
\* refers to carries an edit that the restored volume does not
C30_Witness ==
    /\ UndoReturned
    /\ ct.edits >= 1
    /\ arg.current_state # "closed"
    /\ ~ arg.live
    /\ arg.CS # ct.CSt[arg.cst]

=============================================================================
